---- MODULE Spec2Model ----
(***************************************************************************)
(* Model of the snapshot restore engine of meraki_auto_migration.py:       *)
(* ComprehensiveRestore.restore_all_settings, _restore_network_settings,   *)
(* _restore_access_policies_with_mapping and _restore_device_settings.     *)
(*                                                                         *)
(* The restore is one sequential run.  Every step of the model is one      *)
(* statement block of the code that issues target API calls (one loop      *)
(* iteration, or one scalar step); the answer of the target to each call   *)
(* is chosen by the environment.  `calls` is the trace of requests with    *)
(* their answers, `warnings` the operator-facing log lines, `summary` the  *)
(* per-device ledger lines.                                                *)
(***************************************************************************)
EXTENDS Integers, Sequences, FiniteSets, TLC

VARIABLES
    backup,                       \* the snapshot object handed to restore_all_settings
    device_mapping,               \* ordered old-serial -> new-serial pairs
    pc,                           \* position in the code
    devIdx,                       \* index of the device_mapping item being restored
    i,                            \* index of the current loop iteration
    supported_products,           \* _restore_network_settings local
    port_schedule_id_mapping,
    qos_rule_id_mapping,
    link_aggregation_id_mapping,
    access_policy_id_mapping,
    restored_count,
    failed_count,
    interface_id_mapping,         \* _restore_device_settings locals
    dhcp_server_id_mapping,
    static_route_id_mapping,
    rendezvous_point_id_mapping,
    restored_items,
    failed_items,
    sub,                          \* the per-step local counters (successful_x, failed_x)
    calls,                        \* trace of target API calls, with their outcomes
    warnings,                     \* operator-facing log lines (warning/error/skip notes)
    summary,                      \* per-device summary lines (restored, failed)
    faults,                       \* number of non-success answers given so far
    created,                      \* number of identifiers the target has assigned
    returned,                     \* what the running function yields to its caller
    source,                       \* backup: what the source answers to each read
    snapshots,                    \* backup: outcomes of the finished backup_all_settings runs
    now,                          \* backup: the clock datetime.now() reads
    attempt,                      \* _api_call: the loop variable of range(3)
    responses,                    \* _api_call: the HTTP answers received so far
    json_error                    \* _api_call: the class of the exception response.json()
                                  \* raises in the installed requests library

vars == <<backup, device_mapping, pc, devIdx, i, supported_products,
          port_schedule_id_mapping, qos_rule_id_mapping,
          link_aggregation_id_mapping, access_policy_id_mapping,
          restored_count, failed_count, interface_id_mapping,
          dhcp_server_id_mapping, static_route_id_mapping,
          rendezvous_point_id_mapping, restored_items, failed_items, sub,
          calls, warnings, summary, faults, created, returned,
          source, snapshots, now, attempt, responses, json_error>>

\* the state of the other entry points, which a restore run leaves alone
otherVars == <<source, snapshots, now, attempt, responses, json_error>>

netVars == <<supported_products, port_schedule_id_mapping, qos_rule_id_mapping,
             link_aggregation_id_mapping, access_policy_id_mapping,
             restored_count, failed_count>>

devVars == <<interface_id_mapping, dhcp_server_id_mapping,
             static_route_id_mapping, rendezvous_point_id_mapping,
             restored_items, failed_items>>

-----------------------------------------------------------------------------
(* Bounds *)

\* most non-success answers the target gives in one run
MaxFaults == 2
\* most switch ports of a captured device
MaxPorts == 2

-----------------------------------------------------------------------------
(* Values *)

\* Python's None, and the value dict.get(key) gives for a key that a dict
\* does not carry
None == "None"

\* a key that a dict does not carry, where the code tells it from a key that
\* holds None: dict.get(key, default) and the subscript dict[key]
Missing == "Missing"

\* dict.get(key) is falsy, as Python's truth test `if d.get(key):` finds it:
\* the key is not carried, or it holds None, or the empty string.  The
\* identifiers of the model are strings, and "" stands for every value that
\* is not None and tests false ('' and 0)
Falsy(v) == v \in {None, Missing, ""}

EmptyMap == [k \in {} |-> None]

\* d[k] = v on a dict
Put(m, k, v) == [x \in DOMAIN m \cup {k} |-> IF x = k THEN v ELSE m[x]]

\* d.get(k)
Get(m, k) == IF k \in DOMAIN m THEN m[k] ELSE None

\* what a function yields to its caller: nothing yet, a value, Python's None
\* (also the implicit result of a function that ends without a return
\* statement), or an exception
Returned(kind, value) == [kind |-> kind, value |-> value]

NotReturned == Returned("pending", None)

ReturnedNone == Returned("none", None)

Raises == Returned("raised", None)

SECRET_PLACEHOLDER == "REPLACE_WITH_ACTUAL_SECRET"

DefaultRadiusPort == "1812"

DefaultAccountingPort == "1813"

\* The identifiers the target assigns, in the order it assigns them
NewId(n) == CASE n = 0 -> "12"
              [] n = 1 -> "13"
              [] n = 2 -> "14"
              [] n = 3 -> "15"
              [] n = 4 -> "16"
              [] n = 5 -> "17"
              [] n = 6 -> "18"
              [] n = 7 -> "19"
              [] OTHER -> "20"

\* The identifier of a resource that already exists on the target
ExistingId == "90"

\* The interface identifiers the snapshots carry (the target assigns others)
CapturedInterfaceIds == {"4", "5", "6", "7", "8", "9"}

-----------------------------------------------------------------------------
(* Target API answers, as MerakiAPIClient._api_call hands them to its caller:
   "ok"       a JSON value (carrying the assigned identifier for a create),
   "none"     None: the endpoint answered 404, or with an empty body,
   "exc"      an exception,
   "conflict" an exception whose text contains "already exists",
   "exc400"   an exception whose text contains "400",
   "excRadius" an exception whose text contains "secret" or "radius"
              (in any case). *)

WriteOutcomes == {"ok", "none", "exc"}

CreateOutcomes == {"ok", "none", "exc", "conflict"}

\* the answers the fault budget still allows
Allowed(S) == {o \in S : o = "ok" \/ faults < MaxFaults}

Cost(o) == IF o = "ok" THEN 0 ELSE 1

Raised(o) == o \in {"exc", "conflict", "exc400", "excRadius"}

NoData == [empty |-> TRUE]

Call(method, res, dev, path, item, data, out) ==
    [method |-> method, res |-> res, dev |-> dev, path |-> path,
     item |-> item, data |-> data, out |-> out]

Warn(kind, dev, ref, item) == [kind |-> kind, dev |-> dev, ref |-> ref, item |-> item]

NET == "net"

-----------------------------------------------------------------------------
(* Snapshots.  A list-valued section that is missing is the empty list, a
   scalar section is a list of at most one value (both are falsy in the
   code's `if settings.get(...)` tests when empty).  The sections of the
   network-level groups (switch, monitoring) and of a device's routing and
   dhcp dicts are fields of one record. *)

\* interface.get("vlanId") == 1
DefaultVlan == 1

Iface(id, vlan) == [interfaceId |-> id, vlanId |-> vlan]

Port(j) == [portId |-> ToString(j),
            routingInterfaceId |-> IF j % 2 = 1 THEN "5" ELSE None,
            portScheduleId |-> IF j = 1 THEN "sch1" ELSE None,
            accessPolicyNumber |-> IF j = 2 THEN "p1" ELSE None]

Ports(k) == [j \in 1..k |-> Port(j)]

Radius(id, host, port) == [serverId |-> id, host |-> host, port |-> port]

Policy(num, name, servers, sched, acct) ==
    [accessPolicyNumber |-> num, name |-> name, radiusServers |-> servers,
     portScheduleId |-> sched, radiusAccountingServers |-> acct]

NetEmpty ==
    [portSchedules |-> <<>>, qosRules |-> <<>>, linkAggregations |-> <<>>,
     accessPolicies |-> <<>>, stp |-> <<>>, mtu |-> <<>>,
     dhcpServerPolicy |-> <<>>, stormControl |-> <<>>, snmp |-> <<>>,
     syslog |-> <<>>, alerts |-> <<>>]

NetFull ==
    [portSchedules |-> <<[id |-> "sch1", name |-> "Work"],
                         [id |-> "sch2", name |-> "Night"]>>,
     qosRules |-> <<[id |-> "q1", vlan |-> 10]>>,
     linkAggregations |-> <<[id |-> "lag1", name |-> "uplink"]>>,
     accessPolicies |->
        <<Policy("p1", "Staff",
                 <<Radius("rs1", "10.0.0.1", "1812"), Radius("rs2", "10.0.0.2", Missing)>>,
                 "sch1", <<>>),
          Policy("p2", "Guest", <<>>, None, <<>>)>>,
     stp |-> <<[rstpEnabled |-> "True"]>>,
     mtu |-> <<[keys |-> {"defaultMtuSize", "overrides"}]>>,
     dhcpServerPolicy |-> <<[defaultPolicy |-> "block"]>>,
     stormControl |-> <<[broadcastThreshold |-> 30]>>,
     snmp |-> <<[access |-> "community"]>>,
     syslog |-> <<[servers |-> <<"10.0.0.5">>]>>,
     alerts |-> <<[defaultDestinations |-> "all"]>>]

NetAlt ==
    [portSchedules |-> <<>>, qosRules |-> <<>>, linkAggregations |-> <<>>,
     accessPolicies |->
        <<Policy("p1", "Lab",
                 <<Radius("rs1", "10.0.0.1", "1645"), Radius("rs3", "10.0.0.3", None)>>,
                 "sch2",
                 <<Radius("rs2", "10.0.0.9", Missing), Radius("rs4", "10.0.0.8", None)>>)>>,
     stp |-> <<>>,
     mtu |-> <<[keys |-> {"note"}]>>,
     dhcpServerPolicy |-> <<>>, stormControl |-> <<>>,
     snmp |-> <<[access |-> "none"]>>, syslog |-> <<>>, alerts |-> <<>>]

\* an L3 switch: VLAN 1 and VLAN 10 interfaces and everything that refers to them
DevA(k) ==
    [interfaces |-> <<Iface("4", DefaultVlan), Iface("5", 10)>>,
     dhcpServers |-> <<[id |-> "s1", interfaceId |-> "5"],
                       [id |-> "s2", interfaceId |-> None]>>,
     relays |-> <<[interfaceId |-> "5"]>>,
     interfaceDhcp |-> <<[interfaceId |-> "4"], [interfaceId |-> "5"]>>,
     staticRoutes |-> <<[staticRouteId |-> "r1", subnet |-> "10.9.0.0/16", interfaceId |-> "5"],
                        [staticRouteId |-> "r2", subnet |-> "10.8.0.0/16", interfaceId |-> "4"]>>,
     ospf |-> <<[areas |-> <<[areaId |-> "0", interfaceIds |-> <<"4", "5">>],
                             [areaId |-> "1", interfaceIds |-> <<"5", "7">>]>>]>>,
     multicast |-> <<[igmpInterfaceIds |-> <<"5", "4">>]>>,
     rendezvousPoints |-> <<[rendezvousPointId |-> "rp1", interfaceId |-> "5"]>>,
     warmSpare |-> <<[enabled |-> TRUE, primarySerial |-> "Q1", spareSerial |-> "Q9"]>>,
     ports |-> Ports(k),
     stackInfo |-> <<[name |-> "stack1"]>>,
     management |-> <<[wan1 |-> [usingStaticIp |-> TRUE, vlan |-> 10]]>>]

\* a switch with one routed VLAN, a route through it, a route without an
\* interface and two rendezvous points
DevB(k) ==
    [interfaces |-> <<Iface("6", 20)>>,
     dhcpServers |-> <<>>,
     relays |-> <<>>,
     interfaceDhcp |-> <<>>,
     staticRoutes |-> <<[staticRouteId |-> "r3", subnet |-> "10.7.0.0/16", interfaceId |-> "6"],
                        [staticRouteId |-> "r1", subnet |-> "10.6.0.0/16", interfaceId |-> None]>>,
     ospf |-> <<>>,
     multicast |-> <<>>,
     rendezvousPoints |-> <<[rendezvousPointId |-> "rp1", interfaceId |-> None],
                            [rendezvousPointId |-> "rp2", interfaceId |-> "6"]>>,
     warmSpare |-> <<>>,
     ports |-> Ports(k),
     stackInfo |-> <<>>,
     management |-> <<[wan1 |-> [usingStaticIp |-> TRUE, vlan |-> 10]]>>]

Snapshot(net, devs) == [network_settings |-> net, device_settings |-> devs]

\* a switch without routing: a warm spare and its ports
DevC(k) ==
    [interfaces |-> <<>>,
     dhcpServers |-> <<>>,
     relays |-> <<[interfaceId |-> "7"]>>,
     interfaceDhcp |-> <<>>,
     staticRoutes |-> <<>>,
     ospf |-> <<>>,
     multicast |-> <<>>,
     rendezvousPoints |-> <<>>,
     warmSpare |-> <<[enabled |-> TRUE, primarySerial |-> "Q1", spareSerial |-> "Q9"]>>,
     ports |-> Ports(k),
     stackInfo |-> <<>>,
     management |-> <<>>]

\* a switch with one routed VLAN and a DHCP server on it
DevD ==
    [interfaces |-> <<Iface("6", 20)>>,
     dhcpServers |-> <<[id |-> "s1", interfaceId |-> "6"]>>,
     relays |-> <<>>,
     interfaceDhcp |-> <<>>,
     staticRoutes |-> <<>>,
     ospf |-> <<>>,
     multicast |-> <<>>,
     rendezvousPoints |-> <<>>,
     warmSpare |-> <<>>,
     ports |-> <<>>,
     stackInfo |-> <<>>,
     management |-> <<>>]

\* a switch whose second captured interface carries no interfaceId
DevE ==
    [interfaces |-> <<Iface("6", 20), Iface(Missing, 30)>>,
     dhcpServers |-> <<>>,
     relays |-> <<>>,
     interfaceDhcp |-> <<>>,
     staticRoutes |-> <<[staticRouteId |-> "r3", subnet |-> "10.7.0.0/16", interfaceId |-> "6"]>>,
     ospf |-> <<>>,
     multicast |-> <<>>,
     rendezvousPoints |-> <<>>,
     warmSpare |-> <<>>,
     ports |-> <<>>,
     stackInfo |-> <<>>,
     management |-> <<>>]

\* a switch with an interface of VLAN 0, an interface that carries no vlanId
\* and a per-interface DHCP entry that carries no interfaceId
DevF ==
    [interfaces |-> <<Iface("8", 0), Iface("5", 10), [interfaceId |-> "9"]>>,
     dhcpServers |-> <<>>,
     relays |-> <<>>,
     interfaceDhcp |-> <<[interfaceId |-> "5"], [interfaceId |-> Missing]>>,
     staticRoutes |-> <<[staticRouteId |-> "r4", subnet |-> "10.5.0.0/16", interfaceId |-> "8"]>>,
     ospf |-> <<>>,
     multicast |-> <<>>,
     rendezvousPoints |-> <<>>,
     warmSpare |-> <<>>,
     ports |-> <<>>,
     stackInfo |-> <<>>,
     management |-> <<>>]

\* a switch whose second captured port carries no portId
DevG ==
    [interfaces |-> <<>>,
     dhcpServers |-> <<>>,
     relays |-> <<>>,
     interfaceDhcp |-> <<>>,
     staticRoutes |-> <<>>,
     ospf |-> <<>>,
     multicast |-> <<>>,
     rendezvousPoints |-> <<>>,
     warmSpare |-> <<>>,
     ports |-> <<Port(1), [Port(2) EXCEPT !.portId = Missing], Port(1)>>,
     stackInfo |-> <<>>,
     management |-> <<>>]

\* a switch whose references to an interface are empty strings
DevH ==
    [interfaces |-> <<Iface("6", 20)>>,
     dhcpServers |-> <<[id |-> "s3", interfaceId |-> ""]>>,
     relays |-> <<[interfaceId |-> ""]>>,
     interfaceDhcp |-> <<[interfaceId |-> ""]>>,
     staticRoutes |-> <<[staticRouteId |-> "r5", subnet |-> "10.4.0.0/16", interfaceId |-> ""]>>,
     ospf |-> <<>>,
     multicast |-> <<>>,
     rendezvousPoints |-> <<[rendezvousPointId |-> "rp3", interfaceId |-> ""]>>,
     warmSpare |-> <<>>,
     ports |-> <<[Port(2) EXCEPT !.routingInterfaceId = ""]>>,
     stackInfo |-> <<>>,
     management |-> <<>>]

\* a network whose policies carry no name, the first with an empty
\* schedule reference, and whose STP settings carry read-only fields and a
\* field that holds None
NetH ==
    [portSchedules |-> <<>>, qosRules |-> <<>>, linkAggregations |-> <<>>,
     accessPolicies |-> <<Policy("p3", Missing, <<>>, "", <<>>),
                          Policy("p4", None, <<>>, "sch9", <<>>)>>,
     stp |-> <<[rstpEnabled |-> "True", stpBridgePriority |-> None,
                warnings |-> "w1", id |-> "st1"]>>,
     mtu |-> <<>>,
     dhcpServerPolicy |-> <<>>, stormControl |-> <<>>, snmp |-> <<>>,
     syslog |-> <<>>, alerts |-> <<>>]

NetStp ==
    [portSchedules |-> <<>>, qosRules |-> <<>>, linkAggregations |-> <<>>,
     accessPolicies |-> <<>>, stp |-> <<[rstpEnabled |-> "True"]>>, mtu |-> <<>>,
     dhcpServerPolicy |-> <<>>, stormControl |-> <<>>, snmp |-> <<>>,
     syslog |-> <<>>, alerts |-> <<>>]

\* the runs the model starts from: a snapshot and a device mapping
Scenarios ==
    {[backup |-> Snapshot(NetFull, [s \in {"Q1"} |-> DevC(k)]),
      device_mapping |-> <<<<"Q1", "N1">>>>] : k \in 0..MaxPorts}
    \cup
    {[backup |-> Snapshot(NetStp, [s \in {"Q1"} |-> DevA(MaxPorts)]),
      device_mapping |-> <<<<"Q1", "N1">>>>],
     [backup |-> Snapshot(NetAlt, [s \in {"Q2"} |-> DevB(1)]),
      device_mapping |-> <<<<"Q3", "N3">>, <<"Q2", "N2">>>>],
     [backup |-> Snapshot(NetStp, [s \in {"Q1"} |-> DevA(0)]),
      device_mapping |-> <<>>],
     [backup |-> Snapshot(NetEmpty, [s \in {"Q1", "Q2"} |->
                                        IF s = "Q1" THEN DevC(1) ELSE DevB(1)]),
      device_mapping |-> <<<<"Q1", "N1">>, <<"Q2", "N2">>>>],
     [backup |-> Snapshot(NetEmpty, [s \in {"Q4", "Q5"} |-> DevD]),
      device_mapping |-> <<<<"Q4", "N4">>, <<"Q5", "N5">>>>],
     [backup |-> Snapshot(NetEmpty, [s \in {"Q6", "Q7"} |->
                                        IF s = "Q6" THEN DevE ELSE DevD]),
      device_mapping |-> <<<<"Q6", "N6">>, <<"Q7", "N7">>>>],
     [backup |-> Snapshot(NetEmpty, [s \in {"Q8"} |-> DevF]),
      device_mapping |-> <<<<"Q8", "N8">>>>],
     [backup |-> Snapshot(NetEmpty, [s \in {"Q9"} |-> DevG]),
      device_mapping |-> <<<<"Q9", "N9">>>>],
     [backup |-> Snapshot(NetH, [s \in {"Q10"} |-> DevH]),
      device_mapping |-> <<<<"Q10", "N10">>>>]}

Init ==
    /\ \E sc \in Scenarios :
          /\ backup = sc.backup
          /\ device_mapping = sc.device_mapping
    /\ pc = "net_info"
    /\ devIdx = 1
    /\ i = 1
    /\ supported_products = {}
    /\ port_schedule_id_mapping = EmptyMap
    /\ qos_rule_id_mapping = EmptyMap
    /\ link_aggregation_id_mapping = EmptyMap
    /\ access_policy_id_mapping = EmptyMap
    /\ restored_count = 0
    /\ failed_count = 0
    /\ interface_id_mapping = EmptyMap
    /\ dhcp_server_id_mapping = EmptyMap
    /\ static_route_id_mapping = EmptyMap
    /\ rendezvous_point_id_mapping = EmptyMap
    /\ restored_items = 0
    /\ failed_items = 0
    /\ sub = [succ |-> 0, fail |-> 0]
    /\ calls = <<>>
    /\ warnings = <<>>
    /\ summary = <<>>
    /\ faults = 0
    /\ created = 0
    /\ returned = NotReturned
    /\ source = EmptyMap
    /\ snapshots = <<>>
    /\ now = 0
    /\ attempt = 0
    /\ responses = <<>>
    /\ json_error = "RequestException"

switch_settings == backup.network_settings

NoSub == [succ |-> 0, fail |-> 0]

-----------------------------------------------------------------------------
(* _restore_network_settings *)

\* a wrong order: QoS rules before port schedules, STP before access policies
NetStepAfterSwapped(step) ==
    CASE step = "net_info" -> "qos_rules"
      [] step = "qos_rules" -> "port_schedules"
      [] step = "port_schedules" -> "link_aggregations"
      [] step = "link_aggregations" -> "stp"
      [] step = "stp" -> "access_policies"
      [] step = "access_policies" -> "mtu"
      [] step = "mtu" -> "net_return"

\* the order of the network-level steps
NetStepAfter(step) ==
    CASE step = "net_info" -> "port_schedules"
      [] step = "port_schedules" -> "qos_rules"
      [] step = "qos_rules" -> "link_aggregations"
      [] step = "link_aggregations" -> "access_policies"
      [] step = "access_policies" -> "stp"
      [] step = "stp" -> "mtu"
      [] step = "mtu" -> "net_return"

\* answers to the list query that follows a conflict
LookupOutcomes == {"match", "nomatch", "exc"}

LookupCost(out, found) == IF out = "conflict" /\ found # "match" THEN 1 ELSE 0

\* the list query issued after a create reported a conflict
LookupCall(res, dev, item, out, found) ==
    IF out = "conflict"
    THEN <<Call("GET", res, dev, None, item, [match |-> found = "match"],
                IF found = "exc" THEN "exc" ELSE "ok")>>
    ELSE <<>>

\* GET /networks/{id}: the product types of the target network
NetInfo ==
    /\ pc = "net_info"
    /\ \E out \in Allowed(WriteOutcomes), products \in {{"switch"}, {"appliance"}} :
          /\ out # "ok" => products = {"switch"}
          /\ supported_products' = IF out = "ok" THEN products ELSE {}
          /\ calls' = Append(calls, Call("GET", "networkInfo", NET, None, 0, NoData, out))
          /\ warnings' = IF out = "ok" THEN warnings
                         ELSE Append(warnings, Warn("noNetworkInfo", NET, <<>>, 0))
          /\ faults' = faults + Cost(out)
    /\ pc' = NetStepAfter("net_info")
    /\ i' = 1
    /\ sub' = NoSub
    /\ UNCHANGED <<backup, device_mapping, otherVars, returned, devIdx, port_schedule_id_mapping,
                   qos_rule_id_mapping, link_aggregation_id_mapping,
                   access_policy_id_mapping, restored_count, failed_count,
                   summary, created>>
    /\ UNCHANGED devVars

\* one iteration of the port-schedule loop
RestorePortSchedule ==
    /\ pc = "port_schedules"
    /\ i <= Len(switch_settings.portSchedules)
    /\ LET schedule == switch_settings.portSchedules[i]
           old_schedule_id == schedule.id
           schedule_data == [name |-> schedule.name]
       IN \E out \in Allowed(CreateOutcomes), found \in LookupOutcomes :
             /\ out # "conflict" => found = "match"
             /\ faults + Cost(out) + LookupCost(out, found) <= MaxFaults
             /\ calls' = Append(calls, Call("POST", "portSchedule", NET, None, i,
                                            schedule_data, out))
                         \o LookupCall("portSchedule", NET, i, out, found)
             /\ port_schedule_id_mapping' =
                   IF out = "ok"
                   THEN Put(port_schedule_id_mapping, old_schedule_id, NewId(created))
                   ELSE IF out = "conflict" /\ found = "match"
                   THEN Put(port_schedule_id_mapping, old_schedule_id, ExistingId)
                   ELSE port_schedule_id_mapping
             /\ created' = IF out = "ok" THEN created + 1 ELSE created
             /\ sub' = IF out = "ok" THEN [sub EXCEPT !.succ = @ + 1] ELSE sub
             /\ warnings' = IF out = "exc"
                            THEN Append(warnings, Warn("portScheduleFailed", NET,
                                                       <<old_schedule_id>>, i))
                            ELSE warnings
             /\ faults' = faults + Cost(out) + LookupCost(out, found)
    /\ i' = i + 1
    /\ UNCHANGED <<backup, device_mapping, otherVars, returned, pc, devIdx, supported_products,
                   qos_rule_id_mapping, link_aggregation_id_mapping,
                   access_policy_id_mapping, restored_count, failed_count, summary>>
    /\ UNCHANGED devVars

\* after the port-schedule loop: the category counts as restored
PortSchedulesDone ==
    /\ pc = "port_schedules"
    /\ i > Len(switch_settings.portSchedules)
    /\ restored_count' = IF Len(switch_settings.portSchedules) > 0
                         THEN restored_count + 1 ELSE restored_count
    /\ pc' = NetStepAfter("port_schedules")
    /\ i' = 1
    /\ sub' = NoSub
    /\ UNCHANGED <<backup, device_mapping, otherVars, returned, devIdx, supported_products,
                   port_schedule_id_mapping, qos_rule_id_mapping,
                   link_aggregation_id_mapping, access_policy_id_mapping,
                   failed_count, calls, warnings, summary, faults, created>>
    /\ UNCHANGED devVars

\* one iteration of the QoS-rule loop
RestoreQosRule ==
    /\ pc = "qos_rules"
    /\ i <= Len(switch_settings.qosRules)
    /\ LET rule == switch_settings.qosRules[i]
           old_rule_id == rule.id
           rule_data == [vlan |-> rule.vlan]
       IN \E out \in Allowed(WriteOutcomes) :
             /\ calls' = Append(calls, Call("POST", "qosRule", NET, None, i, rule_data, out))
             /\ qos_rule_id_mapping' =
                   IF out = "ok" THEN Put(qos_rule_id_mapping, old_rule_id, NewId(created))
                   ELSE qos_rule_id_mapping
             /\ created' = IF out = "ok" THEN created + 1 ELSE created
             /\ sub' = IF out = "ok" THEN [sub EXCEPT !.succ = @ + 1] ELSE sub
             /\ warnings' = IF Raised(out)
                            THEN Append(warnings, Warn("qosRuleFailed", NET, <<old_rule_id>>, i))
                            ELSE warnings
             /\ faults' = faults + Cost(out)
    /\ i' = i + 1
    /\ UNCHANGED <<backup, device_mapping, otherVars, returned, pc, devIdx, supported_products,
                   port_schedule_id_mapping, link_aggregation_id_mapping,
                   access_policy_id_mapping, restored_count, failed_count, summary>>
    /\ UNCHANGED devVars

QosRulesDone ==
    /\ pc = "qos_rules"
    /\ i > Len(switch_settings.qosRules)
    /\ restored_count' = IF Len(switch_settings.qosRules) > 0
                         THEN restored_count + 1 ELSE restored_count
    /\ pc' = NetStepAfter("qos_rules")
    /\ i' = 1
    /\ sub' = NoSub
    /\ UNCHANGED <<backup, device_mapping, otherVars, returned, devIdx, supported_products,
                   port_schedule_id_mapping, qos_rule_id_mapping,
                   link_aggregation_id_mapping, access_policy_id_mapping,
                   failed_count, calls, warnings, summary, faults, created>>
    /\ UNCHANGED devVars

\* one iteration of the link-aggregation loop
RestoreLinkAggregation ==
    /\ pc = "link_aggregations"
    /\ i <= Len(switch_settings.linkAggregations)
    /\ LET agg == switch_settings.linkAggregations[i]
           old_agg_id == agg.id
           agg_data == [name |-> agg.name]
       IN \E out \in Allowed(WriteOutcomes) :
             /\ calls' = Append(calls, Call("POST", "linkAggregation", NET, None, i,
                                            agg_data, out))
             /\ link_aggregation_id_mapping' =
                   IF out = "ok"
                   THEN Put(link_aggregation_id_mapping, old_agg_id, NewId(created))
                   ELSE link_aggregation_id_mapping
             /\ created' = IF out = "ok" THEN created + 1 ELSE created
             /\ sub' = IF out = "ok" THEN [sub EXCEPT !.succ = @ + 1] ELSE sub
             /\ warnings' = IF Raised(out)
                            THEN Append(warnings, Warn("linkAggregationFailed", NET,
                                                       <<old_agg_id>>, i))
                            ELSE warnings
             /\ faults' = faults + Cost(out)
    /\ i' = i + 1
    /\ UNCHANGED <<backup, device_mapping, otherVars, returned, pc, devIdx, supported_products,
                   port_schedule_id_mapping, qos_rule_id_mapping,
                   access_policy_id_mapping, restored_count, failed_count, summary>>
    /\ UNCHANGED devVars

LinkAggregationsDone ==
    /\ pc = "link_aggregations"
    /\ i > Len(switch_settings.linkAggregations)
    /\ restored_count' = IF Len(switch_settings.linkAggregations) > 0
                         THEN restored_count + 1 ELSE restored_count
    /\ pc' = NetStepAfter("link_aggregations")
    /\ i' = 1
    /\ sub' = NoSub
    /\ UNCHANGED <<backup, device_mapping, otherVars, returned, devIdx, supported_products,
                   port_schedule_id_mapping, qos_rule_id_mapping,
                   link_aggregation_id_mapping, access_policy_id_mapping,
                   failed_count, calls, warnings, summary, faults, created>>
    /\ UNCHANGED devVars

-----------------------------------------------------------------------------
(* _restore_access_policies_with_mapping *)

\* the creation format of a captured server list: host, port and a placeholder
\* secret; server.get('port', default) gives the default for a server without
\* the key and None for a server whose port is None
CleanServers(servers, default_port) ==
    [j \in 1..Len(servers) |->
        [host |-> servers[j].host,
         port |-> IF servers[j].port = Missing THEN default_port ELSE servers[j].port,
         secret |-> SECRET_PLACEHOLDER]]

\* a lookup that leaves the captured reference in place when the table has
\* no entry for it
MapPortScheduleKeep(policy, port_schedule_mapping) ==
    IF Falsy(policy.portScheduleId) THEN None
    ELSE IF Falsy(Get(port_schedule_mapping, policy.portScheduleId))
    THEN policy.portScheduleId
    ELSE Get(port_schedule_mapping, policy.portScheduleId)

\* policy_config.get('portScheduleId'): the entry of a truthy reference in
\* the port-schedule table; a falsy reference is not looked up, and the key
\* is not put into policy_config for it nor for a reference without an entry
MapPortSchedule(policy, port_schedule_mapping) ==
    IF Falsy(policy.portScheduleId) THEN None
    ELSE Get(port_schedule_mapping, policy.portScheduleId)

\* policy_data.get('name', 'Unnamed Policy'), policy_data being the cleaned
\* policy: the default stands in for a name that is not carried or is None
PolicyName(policy) ==
    IF policy.name \in {None, Missing} THEN "Unnamed Policy" ELSE policy.name

\* the policy_config submitted for a captured policy
PolicyConfig(policy, port_schedule_mapping) ==
    [name |-> PolicyName(policy),
     radiusServers |-> CleanServers(policy.radiusServers, DefaultRadiusPort),
     radiusAccountingServers |->
         CleanServers(policy.radiusAccountingServers, DefaultAccountingPort),
     portScheduleId |-> MapPortSchedule(policy, port_schedule_mapping)]

\* the per-server warning lines logged after a policy was submitted without error
SecretWarnings(kind, servers, item) ==
    [j \in 1..Len(servers) |-> Warn(kind, NET, <<servers[j].host, servers[j].port>>, item)]

PolicyWarnings(policy_config, item) ==
    (IF Len(policy_config.radiusServers) > 0
     THEN <<Warn("radiusCritical", NET, <<policy_config.name>>, item),
            Warn("radiusCount", NET, <<policy_config.name>>, item)>>
          \o SecretWarnings("radiusSecret", policy_config.radiusServers, item)
     ELSE <<>>)
    \o
    (IF Len(policy_config.radiusAccountingServers) > 0
     THEN <<Warn("accountingCount", NET, <<policy_config.name>>, item)>>
          \o SecretWarnings("accountingSecret", policy_config.radiusAccountingServers, item)
     ELSE <<>>)

\* the error lines of a policy whose create raised: the failure, and two
\* more when the text of the exception names a secret or RADIUS
PolicyFailureLines(policy_config, item, out) ==
    <<Warn("accessPolicyFailed", NET, <<policy_config.name>>, item)>>
    \o (IF out = "excRadius"
        THEN <<Warn("radiusConfigInvalid", NET, <<policy_config.name>>, item),
               Warn("radiusSecretRequired", NET, <<policy_config.name>>, item)>>
        ELSE <<>>)

\* one iteration of the access-policy loop
RestoreAccessPolicy ==
    /\ pc = "access_policies"
    /\ i <= Len(switch_settings.accessPolicies)
    /\ LET policy == switch_settings.accessPolicies[i]
           old_policy_number == policy.accessPolicyNumber
           policy_config == PolicyConfig(policy, port_schedule_id_mapping)
           unmapped == ~Falsy(policy.portScheduleId) /\ Falsy(policy_config.portScheduleId)
       IN \E out \in Allowed(WriteOutcomes \cup {"excRadius"}) :
             /\ calls' = Append(calls, Call("POST", "accessPolicy", NET, None, i,
                                            policy_config, out))
             /\ access_policy_id_mapping' =
                   IF out = "ok"
                   THEN Put(access_policy_id_mapping, old_policy_number, NewId(created))
                   ELSE access_policy_id_mapping
             /\ created' = IF out = "ok" THEN created + 1 ELSE created
             /\ sub' = IF Raised(out) THEN sub ELSE [sub EXCEPT !.succ = @ + 1]
             /\ warnings' =
                   warnings
                   \o (IF unmapped
                       THEN <<Warn("unmappedPortSchedule", NET, <<policy.portScheduleId>>, i)>>
                       ELSE <<>>)
                   \o (IF Raised(out)
                       THEN PolicyFailureLines(policy_config, i, out)
                       ELSE PolicyWarnings(policy_config, i))
             /\ faults' = faults + Cost(out)
    /\ i' = i + 1
    /\ UNCHANGED <<backup, device_mapping, otherVars, returned, pc, devIdx, supported_products,
                   port_schedule_id_mapping, qos_rule_id_mapping,
                   link_aggregation_id_mapping, restored_count, failed_count, summary>>
    /\ UNCHANGED devVars

\* the return of _restore_access_policies_with_mapping and the caller's count
AccessPoliciesDone ==
    /\ pc = "access_policies"
    /\ i > Len(switch_settings.accessPolicies)
    /\ restored_count' = IF sub.succ > 0 THEN restored_count + 1 ELSE restored_count
    /\ warnings' = IF sub.succ > 0
                   THEN Append(warnings, Warn("radiusBanner", NET, <<>>, 0))
                   ELSE warnings
    /\ pc' = NetStepAfter("access_policies")
    /\ i' = 1
    /\ sub' = NoSub
    /\ UNCHANGED <<backup, device_mapping, otherVars, returned, devIdx, supported_products,
                   port_schedule_id_mapping, qos_rule_id_mapping,
                   link_aggregation_id_mapping, access_policy_id_mapping,
                   failed_count, calls, summary, faults, created>>
    /\ UNCHANGED devVars

\* the fields _clean_api_data removes from every object
default_remove ==
    {"id", "serial", "mac", "warnings", "errors", "createdAt", "updatedAt",
     "lastUpdated", "status", "usage", "counts"}

\* _clean_api_data(data, remove_fields): data without the fields removed by
\* default, without remove_fields and without the fields that hold None
CleanApiData(data, remove_fields) ==
    [k \in {x \in DOMAIN data \ (default_remove \cup remove_fields) : data[x] # None}
        |-> data[k]]

\* the STP step
RestoreStp ==
    /\ pc = "stp"
    /\ IF Len(switch_settings.stp) > 0
       THEN \E out \in Allowed(WriteOutcomes) :
               /\ calls' = Append(calls, Call("PUT", "stp", NET, None, 0,
                                              CleanApiData(switch_settings.stp[1],
                                                           {"warnings", "errors"}),
                                              out))
               /\ restored_count' = IF Raised(out) THEN restored_count
                                    ELSE restored_count + 1
               /\ failed_count' = IF Raised(out) THEN failed_count + 1 ELSE failed_count
               /\ warnings' = IF Raised(out)
                              THEN Append(warnings, Warn("stpFailed", NET, <<>>, 0))
                              ELSE warnings
               /\ faults' = faults + Cost(out)
       ELSE UNCHANGED <<calls, restored_count, failed_count, warnings, faults>>
    /\ pc' = NetStepAfter("stp")
    /\ UNCHANGED <<backup, device_mapping, otherVars, returned, devIdx, i, supported_products,
                   port_schedule_id_mapping, qos_rule_id_mapping,
                   link_aggregation_id_mapping, access_policy_id_mapping,
                   sub, summary, created>>
    /\ UNCHANGED devVars

valid_mtu_fields == {"defaultMtuSize", "overrides"}

\* mtu_cleaned: the valid fields of the captured MTU settings
MtuCleaned(mtu) == [keys |-> mtu.keys \cap valid_mtu_fields]

\* an MTU step that does not look at the target's product types
MtuAppliesAnyProduct ==
    /\ Len(switch_settings.mtu) > 0
    /\ MtuCleaned(switch_settings.mtu[1]).keys # {}

\* whether the MTU step issues its write
MtuApplies ==
    /\ Len(switch_settings.mtu) > 0
    /\ "switch" \in supported_products
    /\ MtuCleaned(switch_settings.mtu[1]).keys # {}

\* the two warning lines that close _restore_network_settings when a
\* network-level setting was counted as failed
NetFailedWarnings(failed) ==
    IF failed > 0
    THEN <<Warn("netSettingsFailed", NET, <<>>, failed),
           Warn("netSettingsManual", NET, <<>>, 0)>>
    ELSE <<>>

\* the MTU step and the end of _restore_network_settings
RestoreMtu ==
    /\ pc = "mtu"
    /\ IF MtuApplies
       THEN \E out \in Allowed(WriteOutcomes \cup {"exc400"}) :
               /\ calls' = Append(calls, Call("PUT", "mtu", NET, None, 0,
                                              MtuCleaned(switch_settings.mtu[1]), out))
               /\ restored_count' = IF Raised(out) THEN restored_count
                                    ELSE restored_count + 1
               /\ failed_count' = IF out = "exc" THEN failed_count + 1 ELSE failed_count
               /\ warnings' = (IF out = "exc"
                               THEN Append(warnings, Warn("mtuFailed", NET, <<>>, 0))
                               ELSE warnings)
                              \o NetFailedWarnings(failed_count')
               /\ faults' = faults + Cost(out)
       ELSE /\ warnings' = warnings \o NetFailedWarnings(failed_count)
            /\ UNCHANGED <<calls, restored_count, failed_count, faults>>
    /\ pc' = NetStepAfter("mtu")
    /\ UNCHANGED <<backup, device_mapping, otherVars, returned, devIdx, i, supported_products,
                   port_schedule_id_mapping, qos_rule_id_mapping,
                   link_aggregation_id_mapping, access_policy_id_mapping,
                   sub, summary, created>>
    /\ UNCHANGED devVars

\* restore_all_settings after the network level: devices, when a mapping was given
RestoreDevicesOrSkip ==
    /\ pc = "net_return"
    /\ pc' = IF Len(device_mapping) > 0 THEN "dev_begin" ELSE "done"
    /\ warnings' = IF Len(device_mapping) > 0 THEN warnings
                   ELSE Append(warnings, Warn("noDeviceMapping", NET, <<>>, 0))
    /\ devIdx' = 1
    /\ returned' = IF Len(device_mapping) > 0 THEN returned ELSE ReturnedNone
    /\ UNCHANGED <<backup, device_mapping, otherVars, i, sub, calls, summary, faults, created>>
    /\ UNCHANGED netVars
    /\ UNCHANGED devVars

NextNet ==
    \/ NetInfo
    \/ RestorePortSchedule
    \/ PortSchedulesDone
    \/ RestoreQosRule
    \/ QosRulesDone
    \/ RestoreLinkAggregation
    \/ LinkAggregationsDone
    \/ RestoreAccessPolicy
    \/ AccessPoliciesDone
    \/ RestoreStp
    \/ RestoreMtu
    \/ RestoreDevicesOrSkip

-----------------------------------------------------------------------------
(* _restore_device_settings *)

\* a wrong order: OSPF and static routes before the routing interfaces
DevStepAfterRoutesFirst(step) ==
    CASE step = "dev_begin" -> "static_routes"
      [] step = "static_routes" -> "ospf"
      [] step = "ospf" -> "interfaces"
      [] step = "interfaces" -> "dhcp_servers"
      [] step = "dhcp_servers" -> "dhcp_relays"
      [] step = "dhcp_relays" -> "interface_dhcp"
      [] step = "interface_dhcp" -> "multicast"
      [] step = "multicast" -> "rendezvous_points"
      [] step = "rendezvous_points" -> "warm_spare"
      [] step = "warm_spare" -> "ports"
      [] step = "ports" -> "dev_end"

\* a wrong order: the switch ports before the warm spare
DevStepAfterPortsEarly(step) ==
    CASE step = "dev_begin" -> "interfaces"
      [] step = "interfaces" -> "dhcp_servers"
      [] step = "dhcp_servers" -> "dhcp_relays"
      [] step = "dhcp_relays" -> "interface_dhcp"
      [] step = "interface_dhcp" -> "static_routes"
      [] step = "static_routes" -> "ospf"
      [] step = "ospf" -> "multicast"
      [] step = "multicast" -> "rendezvous_points"
      [] step = "rendezvous_points" -> "ports"
      [] step = "ports" -> "warm_spare"
      [] step = "warm_spare" -> "dev_end"

\* the order of the device-level steps
DevStepAfter(step) ==
    CASE step = "dev_begin" -> "interfaces"
      [] step = "interfaces" -> "dhcp_servers"
      [] step = "dhcp_servers" -> "dhcp_relays"
      [] step = "dhcp_relays" -> "interface_dhcp"
      [] step = "interface_dhcp" -> "static_routes"
      [] step = "static_routes" -> "ospf"
      [] step = "ospf" -> "multicast"
      [] step = "multicast" -> "rendezvous_points"
      [] step = "rendezvous_points" -> "warm_spare"
      [] step = "warm_spare" -> "ports"
      [] step = "ports" -> "dev_end"

old_serial == device_mapping[devIdx][1]

\* the calls go to the serial the settings were captured from
new_serial_is_old == device_mapping[devIdx][1]

new_serial == device_mapping[devIdx][2]

settings == backup.device_settings[old_serial]

\* the identifier of the interface every switch has for VLAN 1
DefaultInterfaceId == "1"

\* a rewrite that keeps a slot for every captured identifier
MapIdsKeepSlots(ids, mapping) == [j \in 1..Len(ids) |-> Get(mapping, ids[j])]

\* the interface identifiers of a list that have a translation entry, translated
MapIds(ids, mapping) ==
    LET kept == SelectSeq(ids, LAMBDA x : ~Falsy(Get(mapping, x)))
    IN [j \in 1..Len(kept) |-> mapping[kept[j]]]

\* the identifiers of a list that have no translation entry
UnmappedIds(ids, mapping) == SelectSeq(ids, LAMBDA x : Falsy(Get(mapping, x)))

\* a device loop that ends at a serial without settings
AfterMissingDeviceStop(idx) == Len(device_mapping) + 1

\* `continue`: the loop goes on with the next item of device_mapping
AfterMissingDevice(idx) == idx + 1

\* a table that is made once and lives through the whole loop
InterfaceTableCarried == interface_id_mapping

\* interface_id_mapping = {}: the table a device's restore starts from
InterfaceTableAtStart == EmptyMap

\* the head of the loop over device_mapping.items()
DevBegin ==
    /\ pc = "dev_begin"
    /\ IF devIdx > Len(device_mapping)
       THEN /\ pc' = "done"
            /\ returned' = ReturnedNone
            /\ UNCHANGED <<devIdx, warnings>>
            /\ UNCHANGED devVars
       ELSE IF old_serial \notin DOMAIN backup.device_settings
       THEN /\ pc' = "dev_begin"
            /\ devIdx' = AfterMissingDevice(devIdx)
            /\ UNCHANGED returned
            /\ warnings' = Append(warnings, Warn("noSettings", old_serial, <<>>, devIdx))
            /\ UNCHANGED devVars
       ELSE /\ pc' = DevStepAfter("dev_begin")
            /\ UNCHANGED <<devIdx, warnings, returned>>
            /\ interface_id_mapping' = InterfaceTableAtStart
            /\ dhcp_server_id_mapping' = EmptyMap
            /\ static_route_id_mapping' = EmptyMap
            /\ rendezvous_point_id_mapping' = EmptyMap
            /\ restored_items' = 0
            /\ failed_items' = 0
    /\ i' = 1
    /\ sub' = NoSub
    /\ UNCHANGED <<backup, device_mapping, otherVars, calls, summary, faults, created>>
    /\ UNCHANGED netVars

\* interface.get("vlanId") == 1.  A captured interface that carries no vlanId
\* is a record without the field; interface.get("vlanId") is None for it, as
\* it is for a vlanId that holds None
IsDefaultVlan(interface) ==
    "vlanId" \in DOMAIN interface /\ interface.vlanId = DefaultVlan

\* `if vlan_id:` is false: the captured interface carries no vlanId, or its
\* vlanId is 0
VlanFalsy(interface) == "vlanId" \notin DOMAIN interface \/ interface.vlanId = 0

\* interface_data: the captured interface without interfaceId and serial
InterfaceData(interface) ==
    [k \in DOMAIN interface \ {"interfaceId", "serial"} |-> interface[k]]

\* the translation entry an interface iteration records (None: no entry);
\* after a conflict the target's interfaces are searched only for a truthy
\* VLAN id
InterfaceEntry(interface, out, found, upd) ==
    IF IsDefaultVlan(interface)
    THEN (IF Raised(out) THEN None ELSE DefaultInterfaceId)
    ELSE IF out = "ok" THEN NewId(created)
    ELSE IF /\ out = "conflict" /\ ~VlanFalsy(interface)
            /\ found = "match" /\ ~Raised(upd)
    THEN ExistingId
    ELSE None

\* whether an interface iteration increments failed_items
InterfaceFailed(interface, out, found, upd) ==
    IF IsDefaultVlan(interface)
    THEN Raised(out)
    ELSE \/ out \in {"none", "exc"}
         \/ /\ out = "conflict"
            /\ ~VlanFalsy(interface)
            /\ \/ found = "exc"
               \/ found = "match" /\ Raised(upd)

\* an interface loop that creates the VLAN 1 interface like any other
InterfaceCallsAlwaysCreate(interface, item, out, found, upd) ==
    <<Call("POST", "interface", new_serial, None, item, InterfaceData(interface), out)>>

\* the calls of an interface iteration
InterfaceCalls(interface, item, out, found, upd) ==
    LET interface_data == InterfaceData(interface)
    IN IF IsDefaultVlan(interface)
       THEN <<Call("PUT", "interface", new_serial, DefaultInterfaceId, item,
                   interface_data, out)>>
       ELSE <<Call("POST", "interface", new_serial, None, item, interface_data, out)>>
            \o (IF VlanFalsy(interface) THEN <<>>
                ELSE LookupCall("interface", new_serial, item, out, found))
            \o (IF out = "conflict" /\ ~VlanFalsy(interface) /\ found = "match"
                THEN <<Call("PUT", "interface", new_serial, ExistingId, item,
                            interface_data, upd)>>
                ELSE <<>>)

\* one iteration of the routing-interface loop.  interface["interfaceId"] is a
\* subscript outside every try block: an interface without the key raises
\* KeyError out of _restore_device_settings and restore_all_settings
RestoreInterface ==
    /\ pc = "interfaces"
    /\ i <= Len(settings.interfaces)
    /\ LET interface == settings.interfaces[i]
           old_interface_id == interface.interfaceId
       IN IF old_interface_id = Missing
          THEN /\ pc' = "done"
               /\ returned' = Raises
               /\ UNCHANGED <<i, interface_id_mapping, sub, failed_items, warnings,
                              calls, created, faults>>
          ELSE /\ \E out \in Allowed(CreateOutcomes), found \in LookupOutcomes,
                     upd \in WriteOutcomes :
                     /\ IsDefaultVlan(interface) => out # "conflict"
                     /\ (out # "conflict" \/ VlanFalsy(interface)) => found = "match"
                     /\ (out # "conflict" \/ VlanFalsy(interface) \/ found # "match")
                           => upd = "ok"
                     /\ faults + Cost(out) + LookupCost(out, found) + Cost(upd) <= MaxFaults
                     /\ LET entry == InterfaceEntry(interface, out, found, upd)
                            failed == InterfaceFailed(interface, out, found, upd)
                        IN /\ interface_id_mapping' =
                                 IF Falsy(entry) THEN interface_id_mapping
                                 ELSE Put(interface_id_mapping, old_interface_id, entry)
                           /\ sub' = IF Falsy(entry) THEN sub
                                     ELSE [sub EXCEPT !.succ = @ + 1]
                           /\ failed_items' = IF failed THEN failed_items + 1
                                              ELSE failed_items
                           /\ warnings' =
                                 IF failed
                                 THEN Append(warnings, Warn("interfaceFailed", new_serial,
                                                            <<old_interface_id>>, i))
                                 ELSE warnings
                     /\ calls' = calls \o InterfaceCalls(interface, i, out, found, upd)
                     /\ created' = IF out = "ok" /\ ~IsDefaultVlan(interface)
                                   THEN created + 1 ELSE created
                     /\ faults' = faults + Cost(out) + LookupCost(out, found) + Cost(upd)
               /\ i' = i + 1
               /\ UNCHANGED <<returned, pc>>
    /\ UNCHANGED <<backup, device_mapping, otherVars, devIdx, dhcp_server_id_mapping,
                   static_route_id_mapping, rendezvous_point_id_mapping,
                   restored_items, summary>>
    /\ UNCHANGED netVars

\* after the interface loop
InterfacesDone ==
    /\ pc = "interfaces"
    /\ i > Len(settings.interfaces)
    /\ restored_items' = restored_items + sub.succ
    /\ pc' = DevStepAfter("interfaces")
    /\ i' = 1
    /\ sub' = NoSub
    /\ UNCHANGED <<backup, device_mapping, otherVars, returned, devIdx, interface_id_mapping,
                   dhcp_server_id_mapping, static_route_id_mapping,
                   rendezvous_point_id_mapping, failed_items, calls, warnings,
                   summary, faults, created>>
    /\ UNCHANGED netVars

\* a rewrite that forgets the table: the captured reference is submitted
MappedRefPassThrough(item_ref, mapping) == item_ref

\* the interfaceId a list item is submitted with: `if data.get("interfaceId"):`
\* leaves a falsy reference as it was captured, and a reference is replaced
\* by its entry in the table
MappedRef(item_ref, mapping) ==
    IF Falsy(item_ref) THEN item_ref ELSE Get(mapping, item_ref)

\* a rewrite without the skip: no item is held back
UnmappableNever(item_ref, mapping) == FALSE

\* the item refers to an interface (its interfaceId is truthy) that has no
\* translation entry
Unmappable(item_ref, mapping) == ~Falsy(item_ref) /\ Falsy(Get(mapping, item_ref))

\* one iteration of the DHCP-server loop (the try block encloses the loop)
RestoreDhcpServer ==
    /\ pc = "dhcp_servers"
    /\ i <= Len(settings.dhcpServers)
    /\ LET server == settings.dhcpServers[i]
           old_server_id == server.id
           server_data == [interfaceId |-> MappedRef(server.interfaceId, interface_id_mapping)]
       IN IF Unmappable(server.interfaceId, interface_id_mapping)
          THEN /\ warnings' = Append(warnings, Warn("unmappedDhcpServer", new_serial,
                                                    <<server.interfaceId>>, i))
               /\ i' = i + 1
               /\ UNCHANGED <<pc, calls, dhcp_server_id_mapping, sub, failed_items,
                              faults, created>>
          ELSE \E out \in Allowed(WriteOutcomes) :
               /\ calls' = Append(calls, Call("POST", "dhcpServer", new_serial, None, i,
                                              server_data, out))
               /\ dhcp_server_id_mapping' =
                     IF out = "ok" THEN Put(dhcp_server_id_mapping, old_server_id, NewId(created))
                     ELSE dhcp_server_id_mapping
               /\ created' = IF out = "ok" THEN created + 1 ELSE created
               /\ sub' = IF Raised(out) THEN sub ELSE [sub EXCEPT !.succ = @ + 1]
               /\ failed_items' = IF Raised(out) THEN failed_items + 1 ELSE failed_items
               /\ warnings' = IF Raised(out)
                              THEN Append(warnings, Warn("dhcpServersFailed", new_serial, <<>>, i))
                              ELSE warnings
               /\ pc' = IF Raised(out) THEN DevStepAfter("dhcp_servers") ELSE pc
               /\ i' = IF Raised(out) THEN 1 ELSE i + 1
               /\ faults' = faults + Cost(out)
    /\ UNCHANGED <<backup, device_mapping, otherVars, returned, devIdx, interface_id_mapping,
                   static_route_id_mapping, rendezvous_point_id_mapping,
                   restored_items, summary>>
    /\ UNCHANGED netVars

\* after the DHCP-server loop ran to its end
DhcpServersDone ==
    /\ pc = "dhcp_servers"
    /\ i > Len(settings.dhcpServers)
    /\ restored_items' = IF Len(settings.dhcpServers) > 0
                         THEN restored_items + 1 ELSE restored_items
    /\ pc' = DevStepAfter("dhcp_servers")
    /\ i' = 1
    /\ sub' = NoSub
    /\ UNCHANGED <<backup, device_mapping, otherVars, returned, devIdx, interface_id_mapping,
                   dhcp_server_id_mapping, static_route_id_mapping,
                   rendezvous_point_id_mapping, failed_items, calls, warnings,
                   summary, faults, created>>
    /\ UNCHANGED netVars

\* the relay settings written: the snapshot's own object, its interfaceId
\* overwritten when the table has an entry for it
RelayData(relay, mapping) ==
    IF ~Falsy(relay.interfaceId) /\ ~Falsy(Get(mapping, relay.interfaceId))
    THEN [relay EXCEPT !.interfaceId = Get(mapping, relay.interfaceId)]
    ELSE relay

\* the DHCP relay step
RestoreDhcpRelays ==
    /\ pc = "dhcp_relays"
    /\ IF Len(settings.relays) > 0
       THEN LET relay_data == RelayData(settings.relays[1], interface_id_mapping)
            IN \E out \in Allowed(WriteOutcomes) :
               /\ backup' = [backup EXCEPT
                                !.device_settings[old_serial].relays = <<relay_data>>]
               /\ calls' = Append(calls, Call("PUT", "dhcpRelays", new_serial, None, 0,
                                              relay_data, out))
               /\ restored_items' = IF Raised(out) THEN restored_items
                                    ELSE restored_items + 1
               /\ failed_items' = IF Raised(out) THEN failed_items + 1 ELSE failed_items
               /\ warnings' = IF Raised(out)
                              THEN Append(warnings, Warn("dhcpRelaysFailed", new_serial, <<>>, 0))
                              ELSE warnings
               /\ faults' = faults + Cost(out)
       ELSE UNCHANGED <<backup, calls, restored_items, failed_items, warnings, faults>>
    /\ pc' = DevStepAfter("dhcp_relays")
    /\ i' = 1
    /\ sub' = NoSub
    /\ UNCHANGED <<device_mapping, otherVars, returned, devIdx, interface_id_mapping,
                   dhcp_server_id_mapping, static_route_id_mapping,
                   rendezvous_point_id_mapping, summary, created>>
    /\ UNCHANGED netVars

\* one iteration of the per-interface DHCP loop.  int_dhcp['interfaceId'] is a
\* subscript outside the try block: an entry without the key raises KeyError
\* out of restore_all_settings
RestoreInterfaceDhcp ==
    /\ pc = "interface_dhcp"
    /\ i <= Len(settings.interfaceDhcp)
    /\ LET int_dhcp == settings.interfaceDhcp[i]
           old_interface_id == int_dhcp.interfaceId
           new_interface_id == Get(interface_id_mapping, old_interface_id)
       IN IF old_interface_id = Missing
          THEN /\ pc' = "done"
               /\ returned' = Raises
               /\ UNCHANGED <<i, warnings, calls, sub, faults>>
          ELSE /\ IF Falsy(new_interface_id)
                  THEN /\ warnings' = Append(warnings,
                                             Warn("skipInterfaceDhcp", new_serial,
                                                  <<old_interface_id>>, i))
                       /\ UNCHANGED <<calls, sub, faults>>
                  ELSE \E out \in Allowed(WriteOutcomes) :
                       /\ calls' = Append(calls, Call("PUT", "interfaceDhcp", new_serial,
                                                      new_interface_id, i, NoData, out))
                       /\ sub' = IF Raised(out) THEN sub ELSE [sub EXCEPT !.succ = @ + 1]
                       /\ warnings' =
                             IF Raised(out)
                             THEN Append(warnings, Warn("interfaceDhcpFailed", new_serial,
                                                        <<new_interface_id>>, i))
                             ELSE warnings
                       /\ faults' = faults + Cost(out)
               /\ i' = i + 1
               /\ UNCHANGED <<returned, pc>>
    /\ UNCHANGED <<backup, device_mapping, otherVars, devIdx, summary, created>>
    /\ UNCHANGED devVars
    /\ UNCHANGED netVars

\* after the per-interface DHCP loop
InterfaceDhcpDone ==
    /\ pc = "interface_dhcp"
    /\ i > Len(settings.interfaceDhcp)
    /\ restored_items' = IF sub.succ > 0 THEN restored_items + 1 ELSE restored_items
    /\ pc' = DevStepAfter("interface_dhcp")
    /\ i' = 1
    /\ sub' = NoSub
    /\ UNCHANGED <<backup, device_mapping, otherVars, returned, devIdx, interface_id_mapping,
                   dhcp_server_id_mapping, static_route_id_mapping,
                   rendezvous_point_id_mapping, failed_items, calls, warnings,
                   summary, faults, created>>
    /\ UNCHANGED netVars

\* one iteration of the static-route loop (the try block is inside the loop)
RestoreStaticRoute ==
    /\ pc = "static_routes"
    /\ i <= Len(settings.staticRoutes)
    /\ LET route == settings.staticRoutes[i]
           old_route_id == route.staticRouteId
           route_data == [subnet |-> route.subnet,
                          interfaceId |-> MappedRef(route.interfaceId, interface_id_mapping)]
       IN IF Unmappable(route.interfaceId, interface_id_mapping)
          THEN /\ warnings' = Append(warnings, Warn("unmappedStaticRoute", new_serial,
                                                    <<route.interfaceId>>, i))
               /\ UNCHANGED <<calls, static_route_id_mapping, sub, failed_items,
                              faults, created>>
          ELSE \E out \in Allowed(WriteOutcomes) :
               /\ calls' = Append(calls, Call("POST", "staticRoute", new_serial, None, i,
                                              route_data, out))
               /\ static_route_id_mapping' =
                     IF out = "ok"
                     THEN Put(static_route_id_mapping, old_route_id, NewId(created))
                     ELSE static_route_id_mapping
               /\ created' = IF out = "ok" THEN created + 1 ELSE created
               /\ sub' = IF Raised(out) THEN sub ELSE [sub EXCEPT !.succ = @ + 1]
               /\ failed_items' = IF Raised(out) THEN failed_items + 1 ELSE failed_items
               /\ warnings' = IF Raised(out)
                              THEN Append(warnings, Warn("staticRouteFailed", new_serial,
                                                         <<old_route_id>>, i))
                              ELSE warnings
               /\ faults' = faults + Cost(out)
    /\ i' = i + 1
    /\ UNCHANGED <<backup, device_mapping, otherVars, returned, pc, devIdx, interface_id_mapping,
                   dhcp_server_id_mapping, rendezvous_point_id_mapping,
                   restored_items, summary>>
    /\ UNCHANGED netVars

\* after the static-route loop
StaticRoutesDone ==
    /\ pc = "static_routes"
    /\ i > Len(settings.staticRoutes)
    /\ restored_items' = restored_items + sub.succ
    /\ pc' = DevStepAfter("static_routes")
    /\ i' = 1
    /\ sub' = NoSub
    /\ UNCHANGED <<backup, device_mapping, otherVars, returned, devIdx, interface_id_mapping,
                   dhcp_server_id_mapping, static_route_id_mapping,
                   rendezvous_point_id_mapping, failed_items, calls, warnings,
                   summary, faults, created>>
    /\ UNCHANGED netVars

\* the areas of ospf_data after the rewrite of their interfaceIds; the area
\* objects are the snapshot's own (ospf_data is a shallow copy)
OspfAreas(ospf, mapping) ==
    [a \in 1..Len(ospf.areas) |->
        IF Len(ospf.areas[a].interfaceIds) > 0
        THEN [ospf.areas[a] EXCEPT !.interfaceIds = MapIds(@, mapping)]
        ELSE ospf.areas[a]]

\* the warnings of the OSPF rewrite, from area a on: one per identifier
\* without an entry, area by area
RECURSIVE OspfWarnings(_, _, _)
OspfWarnings(ospf, mapping, a) ==
    IF a > Len(ospf.areas) THEN <<>>
    ELSE LET bad == UnmappedIds(ospf.areas[a].interfaceIds, mapping)
         IN [j \in 1..Len(bad) |->
                Warn("unmappedOspfInterface", new_serial, <<bad[j]>>, a)]
            \o OspfWarnings(ospf, mapping, a + 1)

\* the OSPF step
RestoreOspf ==
    /\ pc = "ospf"
    /\ IF Len(settings.ospf) > 0
       THEN LET areas == OspfAreas(settings.ospf[1], interface_id_mapping)
                ospf_data == [areas |-> areas]
            IN \E out \in Allowed(WriteOutcomes) :
               /\ backup' = [backup EXCEPT
                                !.device_settings[old_serial].ospf[1].areas = areas]
               /\ calls' = Append(calls, Call("PUT", "ospf", new_serial, None, 0,
                                              ospf_data, out))
               /\ restored_items' = IF Raised(out) THEN restored_items
                                    ELSE restored_items + 1
               /\ failed_items' = IF Raised(out) THEN failed_items + 1 ELSE failed_items
               /\ warnings' = warnings
                              \o OspfWarnings(settings.ospf[1], interface_id_mapping, 1)
                              \o (IF Raised(out)
                                  THEN <<Warn("ospfFailed", new_serial, <<>>, 0)>>
                                  ELSE <<>>)
               /\ faults' = faults + Cost(out)
       ELSE UNCHANGED <<backup, calls, restored_items, failed_items, warnings, faults>>
    /\ pc' = DevStepAfter("ospf")
    /\ i' = 1
    /\ sub' = NoSub
    /\ UNCHANGED <<device_mapping, otherVars, returned, devIdx, interface_id_mapping,
                   dhcp_server_id_mapping, static_route_id_mapping,
                   rendezvous_point_id_mapping, summary, created>>
    /\ UNCHANGED netVars

\* multicast_data: the snapshot's own object, its IGMP-snooping interface list
\* overwritten by the translated list when the captured list is not empty
MulticastData(multicast, mapping) ==
    IF Len(multicast.igmpInterfaceIds) > 0
    THEN [multicast EXCEPT !.igmpInterfaceIds = MapIds(@, mapping)]
    ELSE multicast

\* the multicast step
RestoreMulticast ==
    /\ pc = "multicast"
    /\ IF Len(settings.multicast) > 0
       THEN LET multicast_data == MulticastData(settings.multicast[1], interface_id_mapping)
            IN \E out \in Allowed(WriteOutcomes) :
               /\ backup' = [backup EXCEPT
                                !.device_settings[old_serial].multicast = <<multicast_data>>]
               /\ calls' = Append(calls, Call("PUT", "multicast", new_serial, None, 0,
                                              multicast_data, out))
               /\ restored_items' = IF Raised(out) THEN restored_items
                                    ELSE restored_items + 1
               /\ failed_items' = IF Raised(out) THEN failed_items + 1 ELSE failed_items
               /\ warnings' = IF Raised(out)
                              THEN Append(warnings, Warn("multicastFailed", new_serial, <<>>, 0))
                              ELSE warnings
               /\ faults' = faults + Cost(out)
       ELSE UNCHANGED <<backup, calls, restored_items, failed_items, warnings, faults>>
    /\ pc' = DevStepAfter("multicast")
    /\ i' = 1
    /\ sub' = NoSub
    /\ UNCHANGED <<device_mapping, otherVars, returned, devIdx, interface_id_mapping,
                   dhcp_server_id_mapping, static_route_id_mapping,
                   rendezvous_point_id_mapping, summary, created>>
    /\ UNCHANGED netVars

\* one iteration of the rendezvous-point loop (the try block encloses the loop)
RestoreRendezvousPoint ==
    /\ pc = "rendezvous_points"
    /\ i <= Len(settings.rendezvousPoints)
    /\ LET rp == settings.rendezvousPoints[i]
           old_rp_id == rp.rendezvousPointId
           rp_data == [interfaceId |-> MappedRef(rp.interfaceId, interface_id_mapping)]
       IN IF Unmappable(rp.interfaceId, interface_id_mapping)
          THEN /\ warnings' = Append(warnings, Warn("unmappedRendezvousPoint", new_serial,
                                                    <<rp.interfaceId>>, i))
               /\ i' = i + 1
               /\ UNCHANGED <<pc, calls, rendezvous_point_id_mapping, sub, failed_items,
                              faults, created>>
          ELSE \E out \in Allowed(WriteOutcomes) :
               /\ calls' = Append(calls, Call("POST", "rendezvousPoint", new_serial, None, i,
                                              rp_data, out))
               /\ rendezvous_point_id_mapping' =
                     IF out = "ok"
                     THEN Put(rendezvous_point_id_mapping, old_rp_id, NewId(created))
                     ELSE rendezvous_point_id_mapping
               /\ created' = IF out = "ok" THEN created + 1 ELSE created
               /\ sub' = IF Raised(out) THEN sub ELSE [sub EXCEPT !.succ = @ + 1]
               /\ failed_items' = IF Raised(out) THEN failed_items + 1 ELSE failed_items
               /\ warnings' = IF Raised(out)
                              THEN Append(warnings, Warn("rendezvousPointsFailed", new_serial,
                                                         <<>>, i))
                              ELSE warnings
               /\ pc' = IF Raised(out) THEN DevStepAfter("rendezvous_points") ELSE pc
               /\ i' = IF Raised(out) THEN 1 ELSE i + 1
               /\ faults' = faults + Cost(out)
    /\ UNCHANGED <<backup, device_mapping, otherVars, returned, devIdx, interface_id_mapping,
                   dhcp_server_id_mapping, static_route_id_mapping,
                   restored_items, summary>>
    /\ UNCHANGED netVars

\* after the rendezvous-point loop ran to its end
RendezvousPointsDone ==
    /\ pc = "rendezvous_points"
    /\ i > Len(settings.rendezvousPoints)
    /\ restored_items' = IF Len(settings.rendezvousPoints) > 0
                         THEN restored_items + 1 ELSE restored_items
    /\ pc' = DevStepAfter("rendezvous_points")
    /\ i' = 1
    /\ sub' = NoSub
    /\ UNCHANGED <<backup, device_mapping, otherVars, returned, devIdx, interface_id_mapping,
                   dhcp_server_id_mapping, static_route_id_mapping,
                   rendezvous_point_id_mapping, failed_items, calls, warnings,
                   summary, faults, created>>
    /\ UNCHANGED netVars

\* spare_data: the warm-spare settings without the serial pair
SpareData(warm_spare) == [enabled |-> warm_spare.enabled]

\* the warm-spare step
RestoreWarmSpare ==
    /\ pc = "warm_spare"
    /\ IF Len(settings.warmSpare) > 0
       THEN \E out \in Allowed(WriteOutcomes) :
               /\ calls' = Append(calls, Call("PUT", "warmSpare", new_serial, None, 0,
                                              SpareData(settings.warmSpare[1]), out))
               /\ restored_items' = IF Raised(out) THEN restored_items
                                    ELSE restored_items + 1
               /\ failed_items' = IF Raised(out) THEN failed_items + 1 ELSE failed_items
               /\ warnings' = Append(warnings,
                                     IF Raised(out)
                                     THEN Warn("warmSpareFailed", new_serial, <<>>, 0)
                                     ELSE Warn("warmSpareManual", new_serial, <<>>, 0))
               /\ faults' = faults + Cost(out)
       ELSE UNCHANGED <<calls, restored_items, failed_items, warnings, faults>>
    /\ pc' = DevStepAfter("warm_spare")
    /\ i' = 1
    /\ sub' = NoSub
    /\ UNCHANGED <<backup, device_mapping, otherVars, returned, devIdx, interface_id_mapping,
                   dhcp_server_id_mapping, static_route_id_mapping,
                   rendezvous_point_id_mapping, summary, created>>
    /\ UNCHANGED netVars

\* port_data: the writable fields of a port, its routingInterfaceId replaced
\* when the table has an entry for it
PortData(port, mapping) ==
    [routingInterfaceId |->
        IF ~Falsy(port.routingInterfaceId)
           /\ ~Falsy(Get(mapping, port.routingInterfaceId))
        THEN Get(mapping, port.routingInterfaceId)
        ELSE port.routingInterfaceId,
     portScheduleId |-> port.portScheduleId,
     accessPolicyNumber |-> port.accessPolicyNumber]

\* a port loop that counts a failed write as restored
PortCountAlwaysSuccess(counters, out) == [counters EXCEPT !.succ = @ + 1]

\* what a port iteration does to (successful_ports, failed_ports)
PortCount(counters, out) ==
    IF Raised(out) THEN [counters EXCEPT !.fail = @ + 1]
    ELSE [counters EXCEPT !.succ = @ + 1]

\* the number of port failures that are logged one by one
PortFailureDetails == 5

\* the line a failed port write logs: the port for the first failures, one
\* closing line for the next, nothing after it
PortFailureLines(failed_ports, port_id, item) ==
    IF failed_ports <= PortFailureDetails
    THEN <<Warn("portFailed", new_serial, <<port_id>>, item)>>
    ELSE IF failed_ports = PortFailureDetails + 1
    THEN <<Warn("portFailuresSuppressed", new_serial, <<>>, item)>>
    ELSE <<>>

\* one iteration of the port loop (the try block is inside the loop, after
\* port["portId"]: a port without the key raises KeyError out of
\* restore_all_settings)
RestorePort ==
    /\ pc = "ports"
    /\ i <= Len(settings.ports)
    /\ LET port == settings.ports[i]
           port_id == port.portId
           port_data == PortData(port, interface_id_mapping)
       IN IF port_id = Missing
          THEN /\ pc' = "done"
               /\ returned' = Raises
               /\ UNCHANGED <<i, calls, sub, warnings, faults>>
          ELSE /\ \E out \in Allowed(WriteOutcomes) :
                     /\ calls' = Append(calls, Call("PUT", "port", new_serial, port_id, i,
                                                    port_data, out))
                     /\ sub' = PortCount(sub, out)
                     /\ warnings' =
                           IF Raised(out)
                           THEN warnings \o PortFailureLines(sub.fail + 1, port_id, i)
                           ELSE warnings
                     /\ faults' = faults + Cost(out)
               /\ i' = i + 1
               /\ UNCHANGED <<returned, pc>>
    /\ UNCHANGED <<backup, device_mapping, otherVars, devIdx, summary, created>>
    /\ UNCHANGED devVars
    /\ UNCHANGED netVars

\* after the port loop: the port lines are logged and the port counters
\* enter the device's ledger
PortsDone ==
    /\ pc = "ports"
    /\ i > Len(settings.ports)
    /\ restored_items' = restored_items + sub.succ
    /\ failed_items' = failed_items + sub.fail
    /\ summary' = IF Len(settings.ports) > 0
                  THEN Append(summary, [kind |-> "ports", serial |-> new_serial,
                                        restored |-> sub.succ, failed |-> sub.fail])
                  ELSE summary
    /\ pc' = DevStepAfter("ports")
    /\ i' = 1
    /\ UNCHANGED <<backup, device_mapping, otherVars, returned, devIdx, interface_id_mapping,
                   dhcp_server_id_mapping, static_route_id_mapping,
                   rendezvous_point_id_mapping, sub, calls, warnings,
                   faults, created>>
    /\ UNCHANGED netVars

\* the stack note and the summary lines of a device; then the next device
DevEnd ==
    /\ pc = "dev_end"
    /\ warnings' = IF Len(settings.stackInfo) > 0
                   THEN Append(warnings, Warn("stackManual", new_serial, <<>>, 0))
                   ELSE warnings
    /\ summary' = Append(summary, [kind |-> "device", serial |-> new_serial,
                                   restored |-> restored_items,
                                   failed |-> failed_items])
    /\ devIdx' = devIdx + 1
    /\ pc' = "dev_begin"
    /\ i' = 1
    /\ sub' = NoSub
    /\ UNCHANGED <<backup, device_mapping, otherVars, returned, calls, faults, created>>
    /\ UNCHANGED devVars
    /\ UNCHANGED netVars

NextDev ==
    \/ DevBegin
    \/ RestoreInterface
    \/ InterfacesDone
    \/ RestoreDhcpServer
    \/ DhcpServersDone
    \/ RestoreDhcpRelays
    \/ RestoreInterfaceDhcp
    \/ InterfaceDhcpDone
    \/ RestoreStaticRoute
    \/ StaticRoutesDone
    \/ RestoreOspf
    \/ RestoreMulticast
    \/ RestoreRendezvousPoint
    \/ RendezvousPointsDone
    \/ RestoreWarmSpare
    \/ RestorePort
    \/ PortsDone
    \/ DevEnd

Next == NextNet \/ NextDev

\* restore_all_settings: one run over a snapshot
Spec == Init /\ [][Next]_vars

-----------------------------------------------------------------------------
(* Properties *)

CallIdx == 1..Len(calls)

WarnIdx == 1..Len(warnings)

IsWrite(c) == c.method \in {"POST", "PUT"}

\* the resources whose calls refer to routing interfaces of the same device
InterfaceDependents ==
    {"staticRoute", "ospf", "multicast", "rendezvousPoint", "interfaceDhcp"}

\* the calls of one resource kind issued for one item of one device
CallsFor(res, dev, item) ==
    {c \in CallIdx : calls[c].res = res /\ calls[c].dev = dev /\ calls[c].item = item}

Warned(kind, dev, item) ==
    \E w \in WarnIdx : /\ warnings[w].kind = kind
                       /\ warnings[w].dev = dev
                       /\ warnings[w].item = item

\* C1: in every restore trace, for each device, every create (POST) or update
\* (PUT) of a routing interface comes before every static-route, OSPF,
\* multicast, rendezvous-point and per-interface-DHCP call of that device
\* (hence before each of those that refers to the interface).
C1_InterfacesBeforeDependents ==
    \A a, b \in CallIdx :
        (/\ calls[a].res = "interface"
         /\ IsWrite(calls[a])
         /\ calls[b].res \in InterfaceDependents
         /\ calls[a].dev = calls[b].dev)
        => a < b

\* a device whose created VLAN 10 interface is referred to by a submitted
\* static route, after both an interface update and an interface create
C1_Witness ==
    /\ pc = "dev_end"
    /\ \E a, b, c \in CallIdx :
          /\ calls[a].res = "interface" /\ calls[a].method = "PUT"
          /\ calls[b].res = "interface" /\ calls[b].method = "POST" /\ calls[b].out = "ok"
          /\ calls[c].res = "staticRoute"
          /\ "5" \in DOMAIN interface_id_mapping
          /\ calls[c].data.interfaceId = interface_id_mapping["5"]
    /\ \E d \in CallIdx : calls[d].res = "ospf"
    /\ \E d \in CallIdx : calls[d].res = "interfaceDhcp"

\* the static-route loop of the current device has run
RoutesSettled ==
    pc \in {"ospf", "multicast", "rendezvous_points", "warm_spare", "ports", "dev_end"}

\* C2: for every captured static route of a device: when its interfaceId has
\* an entry in the interface translation table, exactly one create call is
\* issued for it and carries the mapped identifier; when its interfaceId
\* names an interface that has no entry, no create call is issued and a
\* warning is logged; a route that names no interface (its interfaceId is
\* None or empty) gets one create call with the interfaceId as captured and
\* no warning; every route gets its create call whatever happened to the
\* routes before it.
C2_StaticRouteRewrite ==
    RoutesSettled =>
        \A r \in 1..Len(settings.staticRoutes) :
            LET ref == settings.staticRoutes[r].interfaceId
                made == CallsFor("staticRoute", new_serial, r)
            IN IF ref \notin {None, ""} /\ ref \notin DOMAIN interface_id_mapping
               THEN /\ made = {}
                    /\ Warned("unmappedStaticRoute", new_serial, r)
               ELSE /\ Cardinality(made) = 1
                    /\ ~Warned("unmappedStaticRoute", new_serial, r)
                    /\ \A c \in made :
                          /\ calls[c].method = "POST"
                          /\ calls[c].data.interfaceId =
                                IF ref \in {None, ""} THEN ref
                                ELSE interface_id_mapping[ref]

\* the first route was skipped for want of an entry, or its create failed, and
\* the second route was still created with the identifier of its interface
C2_Witness ==
    /\ RoutesSettled
    /\ Len(settings.staticRoutes) = 2
    /\ "5" \notin DOMAIN interface_id_mapping
    /\ "4" \in DOMAIN interface_id_mapping
    /\ CallsFor("staticRoute", new_serial, 1) = {}
    /\ \E c \in CallsFor("staticRoute", new_serial, 2) :
          calls[c].data.interfaceId = DefaultInterfaceId

\* the restore of a device whose references to an interface are empty
\* strings is over: its interface was created, and its DHCP server, relay
\* settings, static route, rendezvous point and port were submitted with the
\* empty reference, without a warning
EmptyReferenceRun ==
    /\ pc = "dev_end"
    /\ new_serial = "N10"
    /\ DOMAIN interface_id_mapping = {"6"}
    /\ \A res \in {"dhcpServer", "staticRoute", "rendezvousPoint"} :
          \E c \in CallsFor(res, new_serial, 1) : calls[c].data.interfaceId = ""
    /\ \E c \in CallIdx : /\ calls[c].res = "dhcpRelays"
                          /\ calls[c].data.interfaceId = ""
    /\ \E c \in CallsFor("port", new_serial, 1) : calls[c].data.routingInterfaceId = ""
    /\ Warned("skipInterfaceDhcp", new_serial, 1)
    /\ \A w \in WarnIdx :
          warnings[w].dev = new_serial => warnings[w].kind = "skipInterfaceDhcp"

\* the policies of a network that carry no name were submitted as 'Unnamed
\* Policy', the one with an empty schedule reference without a warning, and
\* the STP settings were written without their read-only and None fields
UnnamedPolicyRun ==
    /\ pc = "net_return"
    /\ Len(switch_settings.accessPolicies) = 2
    /\ switch_settings.accessPolicies[1].portScheduleId = ""
    /\ \A p \in {1, 2} :
          \E c \in CallsFor("accessPolicy", NET, p) :
              /\ calls[c].data.name = "Unnamed Policy"
              /\ calls[c].data.portScheduleId = None
    /\ ~Warned("unmappedPortSchedule", NET, 1)
    /\ Warned("unmappedPortSchedule", NET, 2)
    /\ \E c \in CallIdx : /\ calls[c].res = "stp"
                          /\ calls[c].data = [rstpEnabled |-> "True"]

\* the port writes of a device the target rejected
FailedPortCalls(dev) ==
    {c \in CallIdx : calls[c].res = "port" /\ calls[c].dev = dev /\ Raised(calls[c].out)}

\* a scalar section of the current device, when present, had its write issued
ScalarAttempted(section, res) ==
    Len(section) > 0 => \E c \in CallIdx : calls[c].res = res /\ calls[c].dev = new_serial

\* C3: for a device with K ports of which exactly one write fails, all K port
\* writes are attempted, the port lines of the ledger report K-1 restored and
\* 1 failed, and the other device-level steps of the device were attempted.
C3_PortFailureIsolation ==
    (pc = "dev_end" /\ Cardinality(FailedPortCalls(new_serial)) = 1) =>
        LET K == Len(settings.ports)
        IN /\ \A p \in 1..K : Cardinality(CallsFor("port", new_serial, p)) = 1
           /\ summary[Len(summary)] =
                 [kind |-> "ports", serial |-> new_serial,
                  restored |-> K - 1, failed |-> 1]
           /\ \A j \in 1..Len(settings.interfaces) :
                 CallsFor("interface", new_serial, j) # {}
           /\ ScalarAttempted(settings.relays, "dhcpRelays")
           /\ ScalarAttempted(settings.ospf, "ospf")
           /\ ScalarAttempted(settings.multicast, "multicast")
           /\ ScalarAttempted(settings.warmSpare, "warmSpare")

\* a routed device with at least two ports whose first port write failed
C3_Witness ==
    /\ pc = "dev_end"
    /\ Len(settings.ports) >= 2
    /\ Len(settings.interfaces) > 0
    /\ Cardinality(FailedPortCalls(new_serial)) = 1
    /\ \E c \in CallsFor("port", new_serial, 1) : Raised(calls[c].out)

NetRank(res) ==
    CASE res = "networkInfo" -> 0
      [] res = "portSchedule" -> 1
      [] res = "qosRule" -> 2
      [] res = "linkAggregation" -> 3
      [] res = "accessPolicy" -> 4
      [] res = "stp" -> 5
      [] res = "mtu" -> 6

\* C5: the network-level calls come in the order port schedules, QoS rules,
\* link aggregations, access policies, STP, MTU: no call of a later category
\* precedes a call of an earlier one.
C5_NetworkOrder ==
    \A a, b \in CallIdx :
        (calls[a].dev = NET /\ calls[b].dev = NET /\ a < b)
        => NetRank(calls[a].res) <= NetRank(calls[b].res)

\* a run that issued calls of all six categories
C5_Witness ==
    \A res \in {"portSchedule", "qosRule", "linkAggregation", "accessPolicy", "stp", "mtu"} :
        \E c \in CallIdx : calls[c].res = res /\ calls[c].dev = NET

\* the mapped devices that have an entry in the snapshot's device settings
RestoredDevices ==
    {d \in 1..Len(device_mapping) : device_mapping[d][1] \in DOMAIN backup.device_settings}

\* every captured routing interface and per-interface DHCP entry of the
\* snapshot carries an interfaceId and every captured port a portId, as the
\* entries of the dashboard's listings do
ItemsKeyed ==
    \A s \in DOMAIN backup.device_settings :
        LET ds == backup.device_settings[s]
        IN /\ \A n \in 1..Len(ds.interfaces) : ds.interfaces[n].interfaceId # Missing
           /\ \A n \in 1..Len(ds.interfaceDhcp) : ds.interfaceDhcp[n].interfaceId # Missing
           /\ \A n \in 1..Len(ds.ports) : ds.ports[n].portId # Missing

\* a run over a snapshot with an interface that carries no interfaceId: the
\* first interface was created, the lookup of the second one's id raised out
\* of restore_all_settings, and nothing was issued or written after it
KeyErrorRun ==
    /\ pc = "done"
    /\ returned = Raises
    /\ ~ItemsKeyed
    /\ \E c \in CallIdx : calls[c].res = "interface" /\ calls[c].dev = "N6"
    /\ \A c \in CallIdx : calls[c].dev # NET => calls[c].res = "interface"
    /\ summary = <<>>

\* a run over a snapshot with a per-interface DHCP entry that carries no
\* interfaceId: the entry before it was written, the lookup raised out of
\* restore_all_settings, and no summary was written
KeyErrorDhcpRun ==
    /\ pc = "done"
    /\ returned = Raises
    /\ CallsFor("interfaceDhcp", "N8", 1) # {}
    /\ CallsFor("interfaceDhcp", "N8", 2) = {}
    /\ ~Warned("skipInterfaceDhcp", "N8", 2)
    /\ summary = <<>>

\* a run over a snapshot with a port that carries no portId: the port before
\* it was written, no later port was, and no summary was written
KeyErrorPortRun ==
    /\ pc = "done"
    /\ returned = Raises
    /\ CallsFor("port", "N9", 1) # {}
    /\ CallsFor("port", "N9", 2) = {}
    /\ CallsFor("port", "N9", 3) = {}
    /\ summary = <<>>

\* a list section was walked to its end: every item was submitted, or skipped
\* with a note for want of a translation entry
ListWalked(section, res, dev, skipped) ==
    \A n \in 1..Len(section) : CallsFor(res, dev, n) # {} \/ Warned(skipped, dev, n)

\* the same for a list inside one try block: an item may also follow the item
\* whose failure ended the list
ListWalkedOrEnded(section, res, dev, skipped, ended) ==
    \A n \in 1..Len(section) :
        \/ CallsFor(res, dev, n) # {}
        \/ Warned(skipped, dev, n)
        \/ \E m \in 1..(n - 1) : Warned(ended, dev, m)

SectionIssued(section, res, dev) ==
    Len(section) > 0 => \E c \in CallIdx : calls[c].res = res /\ calls[c].dev = dev

\* C4 as stated: whatever calls failed, at the end of the run (over a snapshot
\* whose items all carry their id, see ItemsKeyed) every network-level step and,
\* for every mapped device with a snapshot entry, every device-level step
\* whose section is present has issued a call.
C4_EveryPresentStepIssuesCalls ==
    (pc = "done" /\ ItemsKeyed) =>
        /\ SectionIssued(switch_settings.portSchedules, "portSchedule", NET)
        /\ SectionIssued(switch_settings.qosRules, "qosRule", NET)
        /\ SectionIssued(switch_settings.linkAggregations, "linkAggregation", NET)
        /\ SectionIssued(switch_settings.accessPolicies, "accessPolicy", NET)
        /\ SectionIssued(switch_settings.stp, "stp", NET)
        /\ (/\ Len(switch_settings.mtu) > 0
            /\ switch_settings.mtu[1].keys \cap {"defaultMtuSize", "overrides"} # {}
            /\ supported_products # {"appliance"})
           => \E c \in CallIdx : calls[c].res = "mtu"
        /\ \A d \in RestoredDevices :
              LET ds == backup.device_settings[device_mapping[d][1]]
                  dev == device_mapping[d][2]
              IN /\ SectionIssued(ds.interfaces, "interface", dev)
                 /\ SectionIssued(ds.dhcpServers, "dhcpServer", dev)
                 /\ SectionIssued(ds.relays, "dhcpRelays", dev)
                 /\ SectionIssued(ds.interfaceDhcp, "interfaceDhcp", dev)
                 /\ SectionIssued(ds.staticRoutes, "staticRoute", dev)
                 /\ SectionIssued(ds.ospf, "ospf", dev)
                 /\ SectionIssued(ds.multicast, "multicast", dev)
                 /\ SectionIssued(ds.rendezvousPoints, "rendezvousPoint", dev)
                 /\ SectionIssued(ds.warmSpare, "warmSpare", dev)
                 /\ SectionIssued(ds.ports, "port", dev)

\* what holds of the steps after a failed call: over a snapshot whose
\* interfaces, per-interface DHCP entries and ports all carry their id, the
\* run reaches its end without raising, and every step was executed: every
\* item of a present section was submitted, unless it was skipped for want
\* of a translation entry of the
\* interface it refers to, or follows the failed item of its DHCP-server or
\* rendezvous-point list; the MTU write is issued exactly when the target's
\* product types were read and include "switch" and a valid field is captured.
FailureNeverRaises ==
    (pc = "done" /\ ItemsKeyed) =>
        /\ returned.kind # "raised"
        /\ ListWalked(switch_settings.portSchedules, "portSchedule", NET, "never")
        /\ ListWalked(switch_settings.qosRules, "qosRule", NET, "never")
        /\ ListWalked(switch_settings.linkAggregations, "linkAggregation", NET, "never")
        /\ ListWalked(switch_settings.accessPolicies, "accessPolicy", NET, "never")
        /\ SectionIssued(switch_settings.stp, "stp", NET)
        /\ (\E c \in CallIdx : calls[c].res = "mtu")
           <=> (/\ Len(switch_settings.mtu) > 0
                /\ "switch" \in supported_products
                /\ switch_settings.mtu[1].keys \cap {"defaultMtuSize", "overrides"} # {})
        /\ \A d \in RestoredDevices :
              LET ds == backup.device_settings[device_mapping[d][1]]
                  dev == device_mapping[d][2]
              IN /\ \E n \in 1..Len(summary) :
                       summary[n].kind = "device" /\ summary[n].serial = dev
                 /\ ListWalked(ds.interfaces, "interface", dev, "never")
                 /\ ListWalkedOrEnded(ds.dhcpServers, "dhcpServer", dev,
                                      "unmappedDhcpServer", "dhcpServersFailed")
                 /\ SectionIssued(ds.relays, "dhcpRelays", dev)
                 /\ ListWalked(ds.interfaceDhcp, "interfaceDhcp", dev, "skipInterfaceDhcp")
                 /\ ListWalked(ds.staticRoutes, "staticRoute", dev, "unmappedStaticRoute")
                 /\ SectionIssued(ds.ospf, "ospf", dev)
                 /\ SectionIssued(ds.multicast, "multicast", dev)
                 /\ ListWalkedOrEnded(ds.rendezvousPoints, "rendezvousPoint", dev,
                                      "unmappedRendezvousPoint", "rendezvousPointsFailed")
                 /\ SectionIssued(ds.warmSpare, "warmSpare", dev)
                 /\ ListWalked(ds.ports, "port", dev, "never")

\* a finished run in which a network-level call and a device-level call
\* failed and calls were issued after each of them
CallsAfterFailures ==
    /\ pc = "done"
    /\ \E a, b, c, d \in CallIdx :
          /\ a < b /\ b < c /\ c < d
          /\ calls[a].dev = NET /\ Raised(calls[a].out)
          /\ calls[b].dev = NET
          /\ calls[c].dev # NET /\ Raised(calls[c].out)
          /\ calls[d].dev # NET

\* the read of the target network's product types failed, the snapshot holds
\* an MTU section with a valid field, and the run ended without an MTU write
MtuSuppressedAfterFailedRead ==
    /\ pc = "done"
    /\ ItemsKeyed
    /\ Len(switch_settings.mtu) > 0
    /\ switch_settings.mtu[1].keys \cap {"defaultMtuSize", "overrides"} # {}
    /\ \E c \in CallIdx : calls[c].res = "networkInfo" /\ calls[c].out = "exc"
    /\ \A c \in CallIdx : calls[c].res # "mtu"

\* C6 as stated: before an access policy is submitted, a RADIUS server object
\* has been created (or an existing one found) for each of its servers, and
\* the submitted policy refers to its servers by the translated identifiers.
C6_RadiusServersCreatedFirst ==
    \A b \in CallIdx :
        calls[b].res = "accessPolicy" =>
            \A j \in 1..Len(calls[b].data.radiusServers) :
                /\ "serverId" \in DOMAIN calls[b].data.radiusServers[j]
                /\ \E a \in 1..(b - 1) :
                      /\ calls[a].res = "radiusServer"
                      /\ calls[a].data.host = calls[b].data.radiusServers[j].host

\* the access-policy loop has run
PoliciesSettled == pc \in {"stp", "mtu", "net_return", "dev_begin", "done"}

\* the per-server secret warnings logged for the policy at index p
SecretWarningsOf(p) ==
    {w \in WarnIdx : warnings[w].kind = "radiusSecret" /\ warnings[w].item = p}

\* the host:port a warning names for a captured server
NamedServer(server) ==
    <<server.host, IF server.port = Missing THEN DefaultRadiusPort ELSE server.port>>

\* C7 as stated: for every captured access policy with R RADIUS servers,
\* exactly R warnings naming host:port are logged and the policy is submitted
\* with the placeholder secret only.
C7_WarningPerServerAlways ==
    PoliciesSettled =>
        \A p \in 1..Len(switch_settings.accessPolicies) :
            LET servers == switch_settings.accessPolicies[p].radiusServers
            IN /\ Cardinality(SecretWarningsOf(p)) = Len(servers)
               /\ \A c \in CallsFor("accessPolicy", NET, p) :
                     \A j \in 1..Len(calls[c].data.radiusServers) :
                         calls[c].data.radiusServers[j].secret = "REPLACE_WITH_ACTUAL_SECRET"

\* what holds of the secret warnings: every captured access policy with R
\* RADIUS servers is submitted once, with all R servers, each carrying the
\* placeholder secret; when the create call does not fail exactly R warnings
\* are logged, one per server naming its host:port; when the create call
\* fails none is logged.
WarningPerServerOnSuccess ==
    PoliciesSettled =>
        \A p \in 1..Len(switch_settings.accessPolicies) :
            LET servers == switch_settings.accessPolicies[p].radiusServers
                made == CallsFor("accessPolicy", NET, p)
            IN /\ Cardinality(made) = 1
               /\ \A c \in made :
                     /\ Len(calls[c].data.radiusServers) = Len(servers)
                     /\ \A j \in 1..Len(servers) :
                           /\ calls[c].data.radiusServers[j].host = servers[j].host
                           /\ calls[c].data.radiusServers[j].secret
                                 = "REPLACE_WITH_ACTUAL_SECRET"
                     /\ IF Raised(calls[c].out)
                        THEN SecretWarningsOf(p) = {}
                        ELSE /\ Cardinality(SecretWarningsOf(p)) = Len(servers)
                             /\ \A j \in 1..Len(servers) :
                                   \E w \in SecretWarningsOf(p) :
                                       warnings[w].ref = NamedServer(servers[j])

\* a policy with two servers was created and both of its warnings were logged
PolicyWarned ==
    /\ PoliciesSettled
    /\ \E p \in 1..Len(switch_settings.accessPolicies) :
          /\ Len(switch_settings.accessPolicies[p].radiusServers) = 2
          /\ Cardinality(SecretWarningsOf(p)) = 2
          /\ \E c \in CallsFor("accessPolicy", NET, p) : calls[c].out = "ok"

\* the create of a policy with two servers failed and no warning names a
\* server of it
PolicyFailedUnwarned ==
    /\ PoliciesSettled
    /\ \E p \in 1..Len(switch_settings.accessPolicies) :
          /\ Len(switch_settings.accessPolicies[p].radiusServers) = 2
          /\ SecretWarningsOf(p) = {}
          /\ \E c \in CallsFor("accessPolicy", NET, p) : Raised(calls[c].out)

Range(seq) == {seq[n] : n \in 1..Len(seq)}

\* the routing-interface identifiers a write carries
CarriedInterfaceIds(c) ==
    CASE c.res \in {"dhcpServer", "dhcpRelays", "staticRoute", "rendezvousPoint"}
            -> {c.data.interfaceId} \ {None}
      [] c.res = "ospf"
            -> UNION {Range(c.data.areas[a].interfaceIds) : a \in 1..Len(c.data.areas)}
      [] c.res = "multicast" -> Range(c.data.igmpInterfaceIds)
      [] c.res = "port" -> {c.data.routingInterfaceId} \ {None}
      [] OTHER -> {}

\* C8 as stated: no write for DHCP servers, DHCP relays, static routes, OSPF,
\* multicast, rendezvous points or switch ports carries a captured
\* routing-interface identifier: every identifier carried is a translated one.
C8_NoUntranslatedIdentifier ==
    \A c \in CallIdx : CarriedInterfaceIds(calls[c]) \cap CapturedInterfaceIds = {}

\* C9 as stated: the snapshot handed to restore_all_settings is never changed.
C9_SnapshotImmutable == [][backup' = backup]_vars

AppendOnly(m, n) == \A k \in DOMAIN m : k \in DOMAIN n /\ n[k] = m[k]

\* the calls issued by the step
NewCalls == SubSeq(calls', Len(calls) + 1, Len(calls'))

\* the warnings a step appends
NewWarnings == SubSeq(warnings', Len(warnings) + 1, Len(warnings'))

\* the step issued a create of the kind that succeeded, or an update of an
\* existing interface that succeeded, or found an existing port schedule
Justified(res) ==
    \E n \in 1..Len(NewCalls) :
        /\ NewCalls[n].res = res
        /\ \/ NewCalls[n].method = "POST" /\ NewCalls[n].out = "ok"
           \/ /\ NewCalls[n].method = "PUT"
              /\ res = "interface"
              /\ NewCalls[n].out = "ok"
           \/ /\ NewCalls[n].method = "GET"
              /\ res = "portSchedule"
              /\ NewCalls[n].data.match

TableStep(m, n, res) ==
    /\ AppendOnly(m, n)
    /\ DOMAIN n # DOMAIN m => Justified(res)

\* C10 as stated: every translation table is append-only during a run (the
\* device tables: during the restore of one device, they are made afresh for
\* each): an entry is never removed nor changed, and an entry is added only by
\* a step whose create call succeeded or that located and reused an existing
\* resource.
C10_TablesAppendOnly ==
    [][/\ TableStep(port_schedule_id_mapping, port_schedule_id_mapping', "portSchedule")
       /\ TableStep(qos_rule_id_mapping, qos_rule_id_mapping', "qosRule")
       /\ TableStep(link_aggregation_id_mapping, link_aggregation_id_mapping',
                    "linkAggregation")
       /\ TableStep(access_policy_id_mapping, access_policy_id_mapping', "accessPolicy")
       /\ pc # "dev_begin" =>
             /\ TableStep(interface_id_mapping, interface_id_mapping', "interface")
             /\ TableStep(dhcp_server_id_mapping, dhcp_server_id_mapping', "dhcpServer")
             /\ TableStep(static_route_id_mapping, static_route_id_mapping', "staticRoute")
             /\ TableStep(rendezvous_point_id_mapping, rendezvous_point_id_mapping',
                          "rendezvousPoint")]_vars

\* the part of C10 that holds: no step removes an entry of a translation
\* table or changes it (the device tables: during the restore of one device)
TablesOnlyGrow ==
    [][/\ AppendOnly(port_schedule_id_mapping, port_schedule_id_mapping')
       /\ AppendOnly(qos_rule_id_mapping, qos_rule_id_mapping')
       /\ AppendOnly(link_aggregation_id_mapping, link_aggregation_id_mapping')
       /\ AppendOnly(access_policy_id_mapping, access_policy_id_mapping')
       /\ pc # "dev_begin" =>
             /\ AppendOnly(interface_id_mapping, interface_id_mapping')
             /\ AppendOnly(dhcp_server_id_mapping, dhcp_server_id_mapping')
             /\ AppendOnly(static_route_id_mapping, static_route_id_mapping')
             /\ AppendOnly(rendezvous_point_id_mapping,
                           rendezvous_point_id_mapping')]_vars

\* the update of a VLAN 1 interface was answered with not-found, and the
\* interface table holds an entry for it all the same
DefaultVlanEntryAfterNotFound ==
    /\ pc = "dhcp_servers"
    /\ \E n \in CallIdx :
          /\ calls[n].res = "interface"
          /\ calls[n].dev = new_serial
          /\ calls[n].method = "PUT"
          /\ calls[n].path = DefaultInterfaceId
          /\ calls[n].out = "none"
          /\ settings.interfaces[calls[n].item].interfaceId \in DOMAIN interface_id_mapping

\* the counters of the ledger: the network counters, the device counters and
\* the counters of the running step
ledgerVars == <<restored_count, failed_count, restored_items, failed_items, sub>>

\* C14 as stated: a write the target answers with not-found is counted
\* neither as restored nor as failed.
C14_NotFoundCountedApart ==
    [][(/\ Len(NewCalls) = 1
        /\ NewCalls[1].method \in {"POST", "PUT"}
        /\ NewCalls[1].out = "none")
       => UNCHANGED ledgerVars]_vars

\* C15 as stated: restore_all_settings ends and yields to its caller an
\* outcome that holds the restored counts, the failed counts and the warnings.
C15_OutcomeYielded ==
    pc = "done" =>
        /\ returned.kind = "value"
        /\ {"restoredCounts", "failedCounts", "warnings"} \subseteq DOMAIN returned.value

\* the items of device_mapping whose old serial has no entry in the snapshot
MissingDevices ==
    {d \in 1..Len(device_mapping) : device_mapping[d][1] \notin DOMAIN backup.device_settings}

\* C16: at the end of a run (over a snapshot whose interfaces, per-interface
\* DHCP entries and ports all carry their id), for a serial of device_mapping without an entry
\* in the snapshot's device settings a warning was logged and no call was
\* issued for its new serial; the run did not raise, and every other mapped
\* device was restored (its writes issued and its summary line written).
C16_MissingDeviceSkipped ==
    (pc = "done" /\ ItemsKeyed) =>
        /\ returned.kind # "raised"
        /\ \A d \in MissingDevices :
              /\ Warned("noSettings", device_mapping[d][1], d)
              /\ \A c \in CallIdx : calls[c].dev # device_mapping[d][2]
        /\ \A d \in RestoredDevices :
              LET ds == backup.device_settings[device_mapping[d][1]]
                  dev == device_mapping[d][2]
              IN /\ \E n \in 1..Len(summary) :
                       summary[n].kind = "device" /\ summary[n].serial = dev
                 /\ ListWalked(ds.interfaces, "interface", dev, "never")
                 /\ ListWalked(ds.ports, "port", dev, "never")

\* a finished run whose first mapped serial had no settings and whose second
\* mapped device was restored
C16_Witness ==
    /\ pc = "done"
    /\ 1 \in MissingDevices
    /\ 2 \in RestoredDevices
    /\ \E c \in CallIdx : calls[c].dev = device_mapping[2][2] /\ calls[c].res = "staticRoute"

\* the device being restored has the VLAN 1 and VLAN 10 interfaces, the latter
\* captured as "5", and a static route through "5"; the target created the
\* VLAN 10 interface and assigned "12" to it
VlanTenScenario ==
    /\ RoutesSettled
    /\ settings.interfaces = <<Iface("4", DefaultVlan), Iface("5", 10)>>
    /\ settings.staticRoutes[1].interfaceId = "5"
    /\ \E c \in CallsFor("interface", new_serial, 2) :
          calls[c].method = "POST" /\ calls[c].out = "ok"
    /\ Get(interface_id_mapping, "5") = "12"

\* C17: in that scenario the VLAN 1 interface got one call, an update of
\* interface "1", and no create; the VLAN 10 interface was created; the static
\* route was sent once, with interfaceId "12" and not "5".
C17_VlanTenRoute ==
    VlanTenScenario =>
        /\ Cardinality(CallsFor("interface", new_serial, 1)) = 1
        /\ \A c \in CallsFor("interface", new_serial, 1) :
              calls[c].method = "PUT" /\ calls[c].path = "1"
        /\ \A c \in CallsFor("interface", new_serial, 2) :
              calls[c].method = "POST"
        /\ Cardinality(CallsFor("staticRoute", new_serial, 1)) = 1
        /\ \A c \in CallsFor("staticRoute", new_serial, 1) :
              /\ calls[c].method = "POST"
              /\ calls[c].data.interfaceId = "12"
              /\ calls[c].data.interfaceId # "5"

\* the scenario, with the VLAN 1 update accepted and the route created
C17_Witness ==
    /\ VlanTenScenario
    /\ Get(interface_id_mapping, "4") = "1"
    /\ \E c \in CallsFor("staticRoute", new_serial, 1) : calls[c].out = "ok"

\* C19 as stated: a port update carries, for the port schedule and the access
\* policy the captured port refers to, the identifier recorded in the
\* network-level translation table.
C19_PortReferencesTranslated ==
    pc \in {"ports", "dev_end"} =>
        \A c \in CallIdx :
            (calls[c].res = "port" /\ calls[c].dev = new_serial) =>
                LET port == settings.ports[calls[c].item]
                IN /\ port.portScheduleId # None =>
                         calls[c].data.portScheduleId
                             = Get(port_schedule_id_mapping, port.portScheduleId)
                   /\ port.accessPolicyNumber # None =>
                         calls[c].data.accessPolicyNumber
                             = Get(access_policy_id_mapping, port.accessPolicyNumber)

\* C20: the MTU step writes only when the target's product types include
\* "switch"; when they do not, it issues no call and leaves failed_count as it
\* was. No other step issues an MTU write.
C20_MtuNotApplicable ==
    [][/\ (\E n \in 1..Len(NewCalls) : NewCalls[n].res = "mtu")
             => (pc = "mtu" /\ "switch" \in supported_products)
       /\ (pc = "mtu" /\ "switch" \notin supported_products)
             => (calls' = calls /\ UNCHANGED <<restored_count, failed_count>>)]_vars

\* the MTU step was passed for a snapshot with valid MTU settings and a target
\* without the switch product type: no write, nothing counted as failed
C20_Witness ==
    /\ pc \in {"net_return", "dev_begin", "done"}
    /\ Len(switch_settings.mtu) > 0
    /\ switch_settings.mtu[1].keys \cap valid_mtu_fields # {}
    /\ supported_products = {"appliance"}
    /\ \A c \in CallIdx : calls[c].res # "mtu"
    /\ failed_count = 0

\* the devices of device_mapping whose restore has ended (their summary
\* line is written)
FinishedDevices ==
    {d \in RestoredDevices :
        \E n \in 1..Len(summary) :
            summary[n].kind = "device" /\ summary[n].serial = device_mapping[d][2]}

\* C21 as stated: a device whose snapshot holds management-interface settings
\* gets them written to the new device (or the write skipped with a note,
\* after a status query found the device unreachable) before any
\* routing-interface call for that device.
C21_ManagementFirst ==
    \A d \in FinishedDevices :
        LET old == device_mapping[d][1]
            new == device_mapping[d][2]
        IN Len(backup.device_settings[old].management) > 0 =>
              \/ \E c \in CallIdx :
                    /\ calls[c].res = "management"
                    /\ calls[c].dev = new
                    /\ calls[c].method = "PUT"
                    /\ \A b \in CallIdx :
                          (calls[b].res = "interface" /\ calls[b].dev = new) => c < b
              \/ /\ \E c \in CallIdx : calls[c].res = "deviceStatus" /\ calls[c].dev = new
                 /\ Warned("managementSkipped", new, 0)

\* the scalar network settings that follow the MTU step
RemainingScalars == {"dhcpServerPolicy", "stormControl", "snmp", "syslog", "alerts"}

\* C22 as stated: once the network-level restore is over, every remaining
\* scalar network setting the snapshot holds has been written to the target
\* network.
C22_RemainingScalarsWritten ==
    pc \in {"dev_begin", "done"} =>
        \A section \in RemainingScalars :
            Len(switch_settings[section]) > 0 =>
                \E c \in CallIdx :
                    /\ calls[c].res = section
                    /\ calls[c].dev = NET
                    /\ IsWrite(calls[c])

\* C23 as stated: no write carries primarySerial or spareSerial, and for every
\* restored device whose snapshot has warm-spare settings the engine has
\* stated that the spare pairing must be set up by hand.
C23_WarmSpareConfigOnly ==
    /\ \A c \in CallIdx :
          IsWrite(calls[c]) =>
              {"primarySerial", "spareSerial"} \cap DOMAIN calls[c].data = {}
    /\ \A d \in FinishedDevices :
          Len(backup.device_settings[device_mapping[d][1]].warmSpare) > 0 =>
              Warned("warmSpareManual", device_mapping[d][2], 0)

\* the place of a device-level call in the order of the steps
DevRank(res) ==
    CASE res = "interface" -> 1
      [] res = "dhcpServer" -> 2
      [] res = "dhcpRelays" -> 3
      [] res = "interfaceDhcp" -> 4
      [] res = "staticRoute" -> 5
      [] res = "ospf" -> 6
      [] res = "multicast" -> 7
      [] res = "rendezvousPoint" -> 8
      [] res = "warmSpare" -> 9
      [] res = "port" -> 10

\* the place of a new serial in device_mapping
DevicePlace(dev) ==
    CHOOSE d \in 1..Len(device_mapping) : device_mapping[d][2] = dev

\* C24: of two device-level calls, the earlier one belongs to the same device
\* and to the same or an earlier step, or to an earlier device of the mapping.
C24_DeviceStepOrder ==
    \A a, b \in CallIdx :
        (calls[a].dev # NET /\ calls[b].dev # NET /\ a < b) =>
            \/ DevicePlace(calls[a].dev) < DevicePlace(calls[b].dev)
            \/ /\ calls[a].dev = calls[b].dev
               /\ DevRank(calls[a].res) <= DevRank(calls[b].res)

\* a finished run over two devices that both got calls, one of them calls of
\* its warm spare and its ports, the other of interfaces, routes and
\* rendezvous points
C24_Witness ==
    /\ pc = "done"
    /\ Len(device_mapping) = 2
    /\ \E a, b \in CallIdx :
          /\ calls[a].dev = "N1" /\ calls[a].res = "warmSpare"
          /\ calls[b].dev = "N1" /\ calls[b].res = "port"
    /\ \E a, b, c \in CallIdx :
          /\ calls[a].dev = "N2" /\ calls[a].res = "interface"
          /\ calls[b].dev = "N2" /\ calls[b].res = "staticRoute"
          /\ calls[c].dev = "N2" /\ calls[c].res = "rendezvousPoint"

\* an iteration of the routing-interface loop is about to run, for an
\* interface that carries an interfaceId
InterfaceStep ==
    /\ pc = "interfaces"
    /\ i <= Len(settings.interfaces)
    /\ settings.interfaces[i].interfaceId # Missing

\* C25 as stated: of the interfaces that carry an interfaceId, the iteration
\* for an interface of VLAN 1 issues one call, a PUT to interface "1" of the
\* new device, and no POST, and it records the entry captured id -> "1" only
\* when that PUT succeeded; the iteration for any other interface starts
\* with a POST.
C25_DefaultVlanUpdated ==
    [][InterfaceStep =>
          LET interface == settings.interfaces[i]
          IN IF "vlanId" \in DOMAIN interface /\ interface.vlanId = DefaultVlan
             THEN /\ Len(NewCalls) = 1
                  /\ NewCalls[1].res = "interface"
                  /\ NewCalls[1].dev = new_serial
                  /\ NewCalls[1].method = "PUT"
                  /\ NewCalls[1].path = DefaultInterfaceId
                  /\ IF NewCalls[1].out = "ok"
                     THEN interface_id_mapping'
                             = Put(interface_id_mapping, interface.interfaceId,
                                   DefaultInterfaceId)
                     ELSE interface_id_mapping' = interface_id_mapping
             ELSE /\ Len(NewCalls) >= 1
                  /\ NewCalls[1].res = "interface"
                  /\ NewCalls[1].method = "POST"
                  /\ "vlanId" \in DOMAIN interface =>
                        NewCalls[1].data.vlanId = interface.vlanId]_vars

\* the part of C25 that holds: the iteration for an interface of VLAN 1 issues
\* one PUT to interface "1" and no POST, and every other iteration starts
\* with a POST
DefaultVlanNeverCreated ==
    [][InterfaceStep =>
          LET interface == settings.interfaces[i]
          IN IF "vlanId" \in DOMAIN interface /\ interface.vlanId = DefaultVlan
             THEN /\ Len(NewCalls) = 1
                  /\ NewCalls[1].method = "PUT"
                  /\ NewCalls[1].path = DefaultInterfaceId
             ELSE /\ Len(NewCalls) >= 1
                  /\ NewCalls[1].method = "POST"]_vars

\* what the iteration for `interface` does after its create: a create that
\* returned an identifier records captured id -> new id; a create that
\* reported a conflict is followed by a query of the target's interfaces and,
\* when one of them has the VLAN id, by an update of that interface with the
\* same data, which records captured id -> target id unless it failed
CreateOrFallBack(interface, create) ==
    /\ (create.method = "POST" /\ create.out = "ok") =>
          /\ interface.interfaceId \in DOMAIN interface_id_mapping'
          /\ interface_id_mapping'[interface.interfaceId] = NewId(created)
    /\ (create.method = "POST" /\ create.out = "conflict") =>
          /\ Len(NewCalls) >= 2
          /\ NewCalls[2].method = "GET"
          /\ NewCalls[2].res = "interface"
          /\ NewCalls[2].dev = new_serial
          /\ (NewCalls[2].out = "ok" /\ NewCalls[2].data.match) =>
                /\ Len(NewCalls) = 3
                /\ NewCalls[3].method = "PUT"
                /\ NewCalls[3].res = "interface"
                /\ NewCalls[3].path = ExistingId
                /\ NewCalls[3].data = create.data
                /\ ~Raised(NewCalls[3].out) =>
                      /\ interface.interfaceId \in DOMAIN interface_id_mapping'
                      /\ interface_id_mapping'[interface.interfaceId]
                            = ExistingId

\* a later static route that refers to a recorded interface is sent with the
\* recorded identifier
RouteResolves ==
    (pc = "static_routes" /\ i <= Len(settings.staticRoutes)) =>
        LET ref == settings.staticRoutes[i].interfaceId
        IN ref \in DOMAIN interface_id_mapping =>
              /\ Len(NewCalls) = 1
              /\ NewCalls[1].data.interfaceId = interface_id_mapping[ref]

\* C26 as stated: an iteration for an interface that carries an interfaceId
\* and whose create reports a conflict goes on with a query of the target's
\* interfaces and, when one of them has the VLAN id, an update of that
\* interface with the same data; a create that returned an identifier and a
\* match whose update did not fail record captured id -> target id; a later
\* static route that refers to a recorded interface is sent with the recorded
\* identifier.
C26_ConflictFallsBackToMatch ==
    [][/\ InterfaceStep => CreateOrFallBack(settings.interfaces[i], NewCalls[1])
       /\ RouteResolves]_vars

\* what holds of the fallback: it is taken for every interface that carries a
\* VLAN id other than 0
ConflictWithVlanFallsBack ==
    [][/\ (/\ InterfaceStep
           /\ "vlanId" \in DOMAIN settings.interfaces[i]
           /\ settings.interfaces[i].vlanId # 0)
             => CreateOrFallBack(settings.interfaces[i], NewCalls[1])
       /\ RouteResolves]_vars

\* the creates of an interface whose VLAN id is 0 and of an interface that
\* carries no VLAN id reported a conflict: there is no VLAN id to match by,
\* nothing followed them, and the interface between them was created
VlanlessConflict ==
    /\ pc = "dhcp_servers"
    /\ new_serial = "N8"
    /\ \A n \in {1, 3} :
          /\ \A c \in CallsFor("interface", new_serial, n) :
                calls[c].method = "POST" /\ calls[c].out = "conflict"
          /\ Cardinality(CallsFor("interface", new_serial, n)) = 1
    /\ DOMAIN interface_id_mapping = {"5"}
    /\ failed_items = 0
    /\ warnings = <<>>

\* the create of the VLAN 10 interface met a conflict, the interface found on
\* the target was updated, and the static route through it was sent with the
\* identifier of that interface
ConflictMatched ==
    /\ pc = "ospf"
    /\ \E a, b, c \in CallsFor("interface", new_serial, 2) :
          /\ calls[a].method = "POST" /\ calls[a].out = "conflict"
          /\ calls[b].method = "GET" /\ calls[b].data.match
          /\ calls[c].method = "PUT" /\ calls[c].path = ExistingId /\ calls[c].out = "ok"
          /\ a < b /\ b < c
    /\ Get(interface_id_mapping, "5") = ExistingId
    /\ \E r \in CallsFor("staticRoute", new_serial, 1) :
          calls[r].data.interfaceId = ExistingId

\* C27 as stated: when the interface step of a device is over, every captured
\* interface either has a translation entry and was counted as restored, or
\* was counted as failed, never both and never neither; so the two counters
\* add up to the number of captured interfaces.
C27_InterfacesAccounted ==
    pc = "dhcp_servers" =>
        /\ \A n \in 1..Len(settings.interfaces) :
              (settings.interfaces[n].interfaceId \in DOMAIN interface_id_mapping)
                  # Warned("interfaceFailed", new_serial, n)
        /\ restored_items = Cardinality(DOMAIN interface_id_mapping)
        /\ restored_items + failed_items = Len(settings.interfaces)

\* C28: an iteration of the DHCP-server loop over a server whose interfaceId
\* names an interface without a translation entry, and an iteration of the
\* per-interface DHCP loop over an entry whose interfaceId has no translation
\* entry, issue no call and leave failed_items alone, and the loop goes on
\* with the next entry; an iteration over an entry whose interfaceId has a
\* translation entry issues one write that carries the mapped identifier; a
\* DHCP server that names no interface (its interfaceId is None or empty) is
\* created with the interfaceId as captured.
C28_UnresolvedDhcpSkipped ==
    [][/\ (pc = "dhcp_servers" /\ i <= Len(settings.dhcpServers)) =>
             LET ref == settings.dhcpServers[i].interfaceId
             IN /\ (ref \notin {None, ""} /\ ref \notin DOMAIN interface_id_mapping) =>
                      /\ calls' = calls
                      /\ failed_items' = failed_items
                      /\ pc' = pc
                      /\ i' = i + 1
                /\ (ref \notin {None, ""} /\ ref \in DOMAIN interface_id_mapping) =>
                      /\ Len(NewCalls) = 1
                      /\ NewCalls[1].method = "POST"
                      /\ NewCalls[1].data.interfaceId = interface_id_mapping[ref]
                /\ ref \in {None, ""} =>
                      /\ Len(NewCalls) = 1
                      /\ NewCalls[1].method = "POST"
                      /\ NewCalls[1].data.interfaceId = ref
                      /\ \A w \in 1..Len(NewWarnings) :
                            NewWarnings[w].kind # "unmappedDhcpServer"
       /\ (/\ pc = "interface_dhcp" /\ i <= Len(settings.interfaceDhcp)
           /\ settings.interfaceDhcp[i].interfaceId # Missing) =>
             LET ref == settings.interfaceDhcp[i].interfaceId
             IN /\ ref \notin DOMAIN interface_id_mapping =>
                      /\ calls' = calls
                      /\ failed_items' = failed_items
                      /\ pc' = pc
                      /\ i' = i + 1
                /\ ref \in DOMAIN interface_id_mapping =>
                      /\ Len(NewCalls) = 1
                      /\ NewCalls[1].method = "PUT"
                      /\ NewCalls[1].path = interface_id_mapping[ref]]_vars

\* the VLAN 10 interface of the device never resolved: the DHCP server and the
\* per-interface DHCP entry that refer to it were skipped, the server without
\* an interface and the DHCP entry of the VLAN 1 interface were written, and
\* nothing but the interface was counted as failed
C28_Witness ==
    /\ pc = "static_routes"
    /\ DOMAIN interface_id_mapping = {"4"}
    /\ Warned("unmappedDhcpServer", new_serial, 1)
    /\ CallsFor("dhcpServer", new_serial, 1) = {}
    /\ CallsFor("dhcpServer", new_serial, 2) # {}
    /\ Warned("skipInterfaceDhcp", new_serial, 2)
    /\ CallsFor("interfaceDhcp", new_serial, 2) = {}
    /\ \E c \in CallsFor("interfaceDhcp", new_serial, 1) :
          calls[c].path = DefaultInterfaceId
    /\ failed_items = 1

\* C29 as stated: when the steps of a device are over, every DHCP server and
\* every rendezvous point of its snapshot was submitted, or skipped for want
\* of a translation entry for its interface, whatever the create calls of the
\* other items of the list answered.
C29_ListItemsIndependent ==
    pc = "dev_end" =>
        /\ ListWalked(settings.dhcpServers, "dhcpServer", new_serial,
                      "unmappedDhcpServer")
        /\ ListWalked(settings.rendezvousPoints, "rendezvousPoint", new_serial,
                      "unmappedRendezvousPoint")

RECURSIVE Resolved(_, _)
\* the list of the recorded identifiers of the ids that have an entry in the
\* table m, in the order of ids
Resolved(ids, m) ==
    IF ids = <<>> THEN <<>>
    ELSE (IF Head(ids) \in DOMAIN m THEN <<m[Head(ids)]>> ELSE <<>>)
         \o Resolved(Tail(ids), m)

\* C30: the OSPF step of a device whose snapshot has OSPF settings submits one
\* update in which the interfaceIds of every area are the recorded identifiers
\* of the captured ids that have a translation entry, in order; the multicast
\* step does the same with the IGMP-snooping interface list; both are
\* submitted however many ids were dropped.
C30_InterfaceListsResolved ==
    [][/\ (pc = "ospf" /\ Len(settings.ospf) > 0) =>
             /\ Len(NewCalls) = 1
             /\ NewCalls[1].res = "ospf"
             /\ NewCalls[1].method = "PUT"
             /\ NewCalls[1].dev = new_serial
             /\ Len(NewCalls[1].data.areas) = Len(settings.ospf[1].areas)
             /\ \A a \in 1..Len(settings.ospf[1].areas) :
                   /\ NewCalls[1].data.areas[a].areaId = settings.ospf[1].areas[a].areaId
                   /\ NewCalls[1].data.areas[a].interfaceIds
                         = Resolved(settings.ospf[1].areas[a].interfaceIds,
                                    interface_id_mapping)
       /\ (pc = "multicast" /\ Len(settings.multicast) > 0) =>
             /\ Len(NewCalls) = 1
             /\ NewCalls[1].res = "multicast"
             /\ NewCalls[1].method = "PUT"
             /\ NewCalls[1].dev = new_serial
             /\ NewCalls[1].data.igmpInterfaceIds
                   = Resolved(settings.multicast[1].igmpInterfaceIds,
                              interface_id_mapping)]_vars

\* the VLAN 10 interface of the device never resolved: the OSPF area and the
\* IGMP-snooping list, captured with both interfaces, were submitted with the
\* identifier of the VLAN 1 interface alone
C30_Witness ==
    /\ pc = "rendezvous_points"
    /\ DOMAIN interface_id_mapping = {"4"}
    /\ \E c \in CallsFor("ospf", new_serial, 0) :
          calls[c].data.areas[1].interfaceIds = <<DefaultInterfaceId>>
    /\ \E c \in CallsFor("multicast", new_serial, 0) :
          calls[c].data.igmpInterfaceIds = <<DefaultInterfaceId>>

\* the network-level categories restored item by item, with their sections
ItemCategories == {"portSchedule", "qosRule", "linkAggregation"}

CategorySection(res) ==
    CASE res = "portSchedule" -> switch_settings.portSchedules
      [] res = "qosRule" -> switch_settings.qosRules
      [] res = "linkAggregation" -> switch_settings.linkAggregations

\* the categories with an item whose create call failed
FailedCategories ==
    {res \in ItemCategories :
        \E c \in CallIdx : /\ calls[c].res = res
                           /\ calls[c].method = "POST"
                           /\ calls[c].out = "exc"}

\* the categories the snapshot holds items of, one of which at least did not
\* fail
SucceededCategories ==
    {res \in ItemCategories :
        \E c \in CallIdx : /\ calls[c].res = res
                           /\ calls[c].method = "POST"
                           /\ calls[c].out # "exc"}

\* C31 as stated: when the three item-by-item categories are over, every item
\* was attempted, failed_count holds an increment for each category with a
\* failed create, and a category all of whose creates failed does not count
\* as restored.
C31_ItemFailureCounted ==
    pc = "access_policies" =>
        /\ \A res \in ItemCategories :
              \A n \in 1..Len(CategorySection(res)) : CallsFor(res, NET, n) # {}
        /\ failed_count >= Cardinality(FailedCategories)
        /\ restored_count <= Cardinality(SucceededCategories)

\* C32: every iteration of the access-policy loop submits the policy once,
\* under its captured name or, when it has none, as 'Unnamed Policy'; a
\* policy whose portScheduleId names a schedule that has no entry in the
\* port-schedule table is submitted without the field and a warning names
\* the reference; a policy whose portScheduleId has an entry is submitted
\* with the recorded identifier; a policy that names no schedule (its
\* portScheduleId is None or empty) is submitted without the field and
\* without that warning; the captured identifier is never sent.
C32_PolicyScheduleReference ==
    [][(pc = "access_policies" /\ i <= Len(switch_settings.accessPolicies)) =>
          LET policy == switch_settings.accessPolicies[i]
              ref == policy.portScheduleId
          IN /\ Len(NewCalls) = 1
             /\ NewCalls[1].res = "accessPolicy"
             /\ NewCalls[1].method = "POST"
             /\ NewCalls[1].item = i
             /\ NewCalls[1].data.name =
                   IF policy.name \in {None, Missing} THEN "Unnamed Policy"
                   ELSE policy.name
             /\ ref # None => NewCalls[1].data.portScheduleId # ref
             /\ (ref \notin {None, ""} /\ ref \in DOMAIN port_schedule_id_mapping) =>
                   NewCalls[1].data.portScheduleId = port_schedule_id_mapping[ref]
             /\ (ref \notin {None, ""} /\ ref \notin DOMAIN port_schedule_id_mapping) =>
                   /\ NewCalls[1].data.portScheduleId = None
                   /\ \E w \in 1..Len(NewWarnings) :
                         /\ NewWarnings[w].kind = "unmappedPortSchedule"
                         /\ NewWarnings[w].ref = <<ref>>
             /\ ref \in {None, ""} =>
                   /\ NewCalls[1].data.portScheduleId = None
                   /\ \A w \in 1..Len(NewWarnings) :
                         NewWarnings[w].kind # "unmappedPortSchedule"]_vars

\* the create of port schedule sch1 failed and that of sch2 succeeded: the
\* policy that refers to sch1 was created without a schedule, with a warning
C32_Witness ==
    /\ pc = "stp"
    /\ DOMAIN port_schedule_id_mapping = {"sch2"}
    /\ switch_settings.accessPolicies[1].portScheduleId = "sch1"
    /\ \E c \in CallsFor("accessPolicy", NET, 1) :
          calls[c].data.portScheduleId = None /\ calls[c].out = "ok"
    /\ Warned("unmappedPortSchedule", NET, 1)

\* the positions inside the restore of one device
DeviceSteps ==
    {"interfaces", "dhcp_servers", "dhcp_relays", "interface_dhcp",
     "static_routes", "ospf", "multicast", "rendezvous_points", "warm_spare",
     "ports", "dev_end"}

\* C36: the restore of a device starts with empty translation tables; every
\* entry of the interface table was recorded by a call addressed to the device
\* being restored, for an interface of that device's own settings, and every
\* DHCP server submitted for it carries the entry of that table for the
\* interface it names, or its interfaceId as captured when it names none
\* (None or empty).
C36_TablesPerDevice ==
    pc \in DeviceSteps =>
        /\ (pc = "interfaces" /\ i = 1) =>
              /\ interface_id_mapping = EmptyMap
              /\ dhcp_server_id_mapping = EmptyMap
              /\ static_route_id_mapping = EmptyMap
              /\ rendezvous_point_id_mapping = EmptyMap
        /\ \A k \in DOMAIN interface_id_mapping :
              \E n \in CallIdx :
                  /\ calls[n].res = "interface"
                  /\ calls[n].dev = new_serial
                  /\ ~Raised(calls[n].out)
                  /\ calls[n].item \in 1..Len(settings.interfaces)
                  /\ settings.interfaces[calls[n].item].interfaceId = k
        /\ \A n \in CallIdx :
              (calls[n].res = "dhcpServer" /\ calls[n].dev = new_serial) =>
                  LET ref == settings.dhcpServers[calls[n].item].interfaceId
                  IN IF ref \in {None, ""}
                     THEN calls[n].data.interfaceId = ref
                     ELSE /\ ref \in DOMAIN interface_id_mapping
                          /\ calls[n].data.interfaceId = interface_id_mapping[ref]

\* the second of two devices that captured the same interface identifier: the
\* first one's interface was created, the second one's create failed, and the
\* second one's DHCP server on that interface was held back
C36_Witness ==
    /\ pc = "dhcp_relays"
    /\ devIdx = 2
    /\ device_mapping = <<<<"Q4", "N4">>, <<"Q5", "N5">>>>
    /\ \E n \in CallIdx : /\ calls[n].res = "interface" /\ calls[n].dev = "N4"
                          /\ calls[n].out = "ok"
    /\ \E n \in CallIdx : /\ calls[n].res = "dhcpServer" /\ calls[n].dev = "N4"
    /\ \E n \in CallIdx : /\ calls[n].res = "interface" /\ calls[n].dev = "N5"
                          /\ calls[n].out = "exc"
    /\ interface_id_mapping = EmptyMap
    /\ Warned("unmappedDhcpServer", "N5", 1)
    /\ CallsFor("dhcpServer", "N5", 1) = {}

\* the data of a device-level write is taken from the entry `entry` of the
\* snapshot's device settings
FromSnapshotEntry(c, entry) ==
    CASE c.res = "interface" ->
            /\ c.item \in 1..Len(entry.interfaces)
            /\ c.data = [k \in DOMAIN entry.interfaces[c.item] \ {"interfaceId", "serial"}
                             |-> entry.interfaces[c.item][k]]
      [] c.res = "dhcpServer" -> c.item \in 1..Len(entry.dhcpServers)
      [] c.res = "dhcpRelays" -> Len(entry.relays) > 0 /\ c.data = entry.relays[1]
      [] c.res = "interfaceDhcp" -> c.item \in 1..Len(entry.interfaceDhcp)
      [] c.res = "staticRoute" ->
            /\ c.item \in 1..Len(entry.staticRoutes)
            /\ c.data.subnet = entry.staticRoutes[c.item].subnet
      [] c.res = "ospf" -> Len(entry.ospf) > 0
      [] c.res = "multicast" -> Len(entry.multicast) > 0 /\ c.data = entry.multicast[1]
      [] c.res = "rendezvousPoint" -> c.item \in 1..Len(entry.rendezvousPoints)
      [] c.res = "warmSpare" ->
            /\ Len(entry.warmSpare) > 0
            /\ c.data.enabled = entry.warmSpare[1].enabled
      [] c.res = "port" ->
            /\ c.item \in 1..Len(entry.ports)
            /\ c.path = entry.ports[c.item].portId
            /\ c.data.portScheduleId = entry.ports[c.item].portScheduleId
            /\ c.data.accessPolicyNumber = entry.ports[c.item].accessPolicyNumber
      [] OTHER -> FALSE

\* C37: every call of a step that is addressed to a device is issued while a
\* mapping entry old -> new with captured settings is being restored, is
\* addressed to new, which is a value of device_mapping, and a write takes its
\* data from the snapshot entry of old; with an empty device_mapping the run
\* ends after the network-level restore without a device-level call.
C37_WritesFollowMapping ==
    [][/\ \A n \in 1..Len(NewCalls) :
             LET c == NewCalls[n]
             IN c.dev # NET =>
                   /\ pc \in DeviceSteps
                   /\ devIdx \in 1..Len(device_mapping)
                   /\ c.dev = device_mapping[devIdx][2]
                   /\ device_mapping[devIdx][1] \in DOMAIN backup.device_settings
                   /\ IsWrite(c) =>
                         FromSnapshotEntry(c,
                             backup'.device_settings[device_mapping[devIdx][1]])
       /\ (pc = "net_return" /\ Len(device_mapping) = 0) =>
             /\ pc' = "done"
             /\ calls' = calls
             /\ \A n \in CallIdx : calls[n].dev = NET]_vars

\* a finished run with two mapping entries: the first old serial has no
\* settings and nothing was addressed to its new serial, the writes of the
\* second went to its new serial
C37_Witness ==
    /\ pc = "done"
    /\ device_mapping = <<<<"Q3", "N3">>, <<"Q2", "N2">>>>
    /\ \E n \in CallIdx : IsWrite(calls[n]) /\ calls[n].dev = NET
    /\ \E n \in CallIdx : /\ calls[n].method = "POST" /\ calls[n].res = "staticRoute"
                          /\ calls[n].dev = "N2" /\ calls[n].out = "ok"
    /\ {calls[n].dev : n \in CallIdx} = {NET, "N2"}

\* a finished run without device mapping: the network-level restore wrote,
\* nothing was addressed to a device
EmptyMappingRun ==
    /\ pc = "done"
    /\ device_mapping = <<>>
    /\ "Q1" \in DOMAIN backup.device_settings
    /\ \E n \in CallIdx : IsWrite(calls[n]) /\ calls[n].dev = NET
    /\ \A n \in CallIdx : calls[n].dev = NET
    /\ Warned("noDeviceMapping", NET, 0)

-----------------------------------------------------------------------------
(* MerakiAPIClient._api_call: one invocation.  Every step is one pass of the
   body of `for attempt in range(3)`: a request is sent and its answer is
   handled.  The answer is chosen by the environment. *)

\* range(3)
MaxAttempts == 3

\* the variables an invocation of _api_call leaves alone
apiFrame == <<backup, device_mapping, devIdx, i, supported_products,
              port_schedule_id_mapping, qos_rule_id_mapping,
              link_aggregation_id_mapping, access_policy_id_mapping,
              restored_count, failed_count, interface_id_mapping,
              dhcp_server_id_mapping, static_route_id_mapping,
              rendezvous_point_id_mapping, restored_items, failed_items, sub,
              calls, warnings, summary, faults, created, source, snapshots, now,
              json_error>>

\* an HTTP response with its status code and whether it has a body
\* retry_after: whether int(response.headers.get('Retry-After', 1)) and
\* time.sleep of it go through ("int": the header is missing or a
\* non-negative integer) or raise ValueError ("bad": a date, a fraction, a
\* negative number)
\* body: what response.json() makes of a body: a value ("json"), None
\* ("null": the body is the JSON text null) or an exception ("text": the body
\* is not JSON)
Http(status, content) ==
    [kind |-> "http", status |-> status, content |-> content, retry_after |-> "int",
     body |-> "json"]

\* the response with a Retry-After header that cannot be slept on
Unusable(resp) == [resp EXCEPT !.retry_after = "bad"]

\* the response with a body that is JSON null, or that is not JSON
Body(resp, body) == [resp EXCEPT !.body = body]

\* session.request raised a RequestException (connection error, timeout)
TransportError ==
    [kind |-> "transport", status |-> 0, content |-> FALSE, retry_after |-> "int",
     body |-> "json"]

\* the answers the environment can give to one request
Responses ==
    {Http(200, TRUE), Http(200, FALSE), Body(Http(200, TRUE), "null"),
     Body(Http(200, TRUE), "text"), Http(400, TRUE), Http(404, TRUE),
     Http(429, TRUE), Unusable(Http(429, TRUE)), Http(500, TRUE), TransportError}

\* what response.json() raises for a body that is not JSON:
\* requests.exceptions.JSONDecodeError, a RequestException, since requests
\* 2.27, and a plain ValueError before; the repository pins no version
JsonErrors == {"RequestException", "ValueError"}

RateLimited(resp) == resp.kind = "http" /\ resp.status = 429

NotFound(resp) == resp.kind = "http" /\ resp.status = 404

\* raise_for_status() raises for the 4xx and 5xx codes
HttpError(resp) == resp.kind = "http" /\ resp.status >= 400

\* a successful answer whose body response.json() cannot decode
Undecodable(resp) ==
    resp.kind = "http" /\ ~HttpError(resp) /\ resp.content /\ resp.body = "text"

\* an attempt that neither returned a value nor reported absence
FailedAttempt(resp) ==
    \/ resp.kind = "transport"
    \/ HttpError(resp) /\ ~NotFound(resp)
    \/ Undecodable(resp)

\* an attempt that ends in one of the two except clauses
Caught(resp) ==
    \/ resp.kind = "transport"
    \/ HttpError(resp)
    \/ Undecodable(resp) /\ json_error = "RequestException"

\* `return response.json()`
Decoded(resp) == IF resp.body = "null" THEN ReturnedNone ELSE Returned("value", "json")

\* an error handler that gives up at once
HandledGivingUp(resp, n) ==
    IF RateLimited(resp)
    THEN (IF resp.retry_after = "bad" THEN Raises ELSE NotReturned)
    ELSE IF NotFound(resp) THEN ReturnedNone
    ELSE IF Caught(resp) \/ Undecodable(resp) THEN Raises
    ELSE IF resp.content THEN Decoded(resp)
    ELSE ReturnedNone

\* what one pass of the loop body yields for the answer to attempt n:
\* NotReturned when the loop goes on (continue, or sleep and next attempt);
\* the ValueError of the rate-limit branch, and of response.json() in a
\* library that raises it, is caught by neither handler
Handled(resp, n) ==
    IF RateLimited(resp)
    THEN (IF resp.retry_after = "bad" THEN Raises ELSE NotReturned)
    ELSE IF NotFound(resp) THEN ReturnedNone
    ELSE IF Caught(resp)
         THEN (IF n = MaxAttempts - 1 THEN Raises ELSE NotReturned)
    ELSE IF Undecodable(resp) THEN Raises
    ELSE IF resp.content THEN Decoded(resp)
    ELSE ReturnedNone

InitApi ==
    /\ pc = "api_call"
    /\ attempt = 0
    /\ responses = <<>>
    /\ json_error \in JsonErrors
    /\ returned = NotReturned
    /\ backup = Snapshot(NetEmpty, EmptyMap)
    /\ device_mapping = <<>>
    /\ devIdx = 1
    /\ i = 1
    /\ supported_products = {}
    /\ port_schedule_id_mapping = EmptyMap
    /\ qos_rule_id_mapping = EmptyMap
    /\ link_aggregation_id_mapping = EmptyMap
    /\ access_policy_id_mapping = EmptyMap
    /\ restored_count = 0
    /\ failed_count = 0
    /\ interface_id_mapping = EmptyMap
    /\ dhcp_server_id_mapping = EmptyMap
    /\ static_route_id_mapping = EmptyMap
    /\ rendezvous_point_id_mapping = EmptyMap
    /\ restored_items = 0
    /\ failed_items = 0
    /\ sub = NoSub
    /\ calls = <<>>
    /\ warnings = <<>>
    /\ summary = <<>>
    /\ faults = 0
    /\ created = 0
    /\ source = EmptyMap
    /\ snapshots = <<>>
    /\ now = 0

\* one pass of the loop body
ApiAttempt ==
    /\ pc = "api_call"
    /\ attempt < MaxAttempts
    /\ \E resp \in Responses :
          /\ responses' = Append(responses, resp)
          /\ returned' = Handled(resp, attempt)
          /\ pc' = IF Handled(resp, attempt).kind = "pending" THEN "api_call" ELSE "api_done"
    /\ attempt' = attempt + 1
    /\ UNCHANGED apiFrame

\* the loop ends without a return or a raise: the function ends, yielding None
ApiFallThrough ==
    /\ pc = "api_call"
    /\ attempt = MaxAttempts
    /\ returned' = ReturnedNone
    /\ pc' = "api_done"
    /\ UNCHANGED <<attempt, responses>>
    /\ UNCHANGED apiFrame

NextApi ==
    \/ ApiAttempt
    \/ ApiFallThrough

SpecApi == InitApi /\ [][NextApi]_vars

\* C13 as stated: _api_call yields None only when the last answer was
\* not-found or a success with an empty body; when every attempt failed,
\* rate-limited attempts included, it raises.
C13_AbsentIsNotFailure ==
    pc = "api_done" =>
        LET last == responses[Len(responses)]
        IN /\ returned.kind = "none" =>
                 \/ NotFound(last)
                 \/ (~HttpError(last) /\ last.kind = "http" /\ ~last.content)
           /\ (\A n \in 1..Len(responses) : FailedAttempt(responses[n]))
                 => returned.kind = "raised"

\* an invocation of _api_call runs on: the loop body and the statements after
\* it are sequential code, and every sleep ends
SpecApiLive == InitApi /\ [][NextApi]_vars /\ WF_vars(NextApi)

\* an error answer other than rate limiting and not-found: an HTTP error, a
\* transport error, or a body that is not JSON where the library reports that
\* as a RequestException
ErrorAnswer(resp) == Caught(resp) /\ ~RateLimited(resp) /\ ~NotFound(resp)

\* C40: an invocation of _api_call ends, having sent at most three requests; a
\* not-found answer is the last one and the call yields None on it; after an
\* error answer other than rate limiting the call goes on to the next attempt
\* unless it was the third, on which it raises; it raises on nothing else but
\* a rate-limit answer whose Retry-After header cannot be slept on and, where
\* response.json() raises a plain ValueError, a successful answer whose body
\* is not JSON.
C40_ApiCallTerminates ==
    /\ <>(pc = "api_done")
    /\ [](/\ Len(responses) <= MaxAttempts
          /\ attempt = Len(responses)
          /\ \A n \in 1..Len(responses) :
                /\ NotFound(responses[n]) =>
                      /\ n = Len(responses)
                      /\ pc = "api_done"
                      /\ returned = ReturnedNone
                /\ ErrorAnswer(responses[n]) =>
                      IF n = MaxAttempts
                      THEN pc = "api_done" /\ returned = Raises
                      ELSE n = Len(responses) => pc = "api_call"
                /\ (n < Len(responses)) =>
                      (RateLimited(responses[n]) \/ ErrorAnswer(responses[n]))
          /\ returned = Raises =>
                \/ /\ Len(responses) = MaxAttempts
                   /\ ErrorAnswer(responses[MaxAttempts])
                \/ /\ RateLimited(responses[Len(responses)])
                   /\ responses[Len(responses)].retry_after = "bad"
                \/ /\ Undecodable(responses[Len(responses)])
                   /\ json_error = "ValueError")

\* a call that raised on its third request, after a server error and a
\* connection error
C40_Witness ==
    /\ pc = "api_done"
    /\ returned = Raises
    /\ Len(responses) = MaxAttempts
    /\ responses[1] = Http(500, TRUE)
    /\ responses[2] = TransportError

\* a call that returned a value on its second request, after a successful
\* answer whose body was not JSON
UndecodableRetried ==
    /\ pc = "api_done"
    /\ returned = Returned("value", "json")
    /\ responses = <<Body(Http(200, TRUE), "text"), Http(200, TRUE)>>

\* a call that yielded None on a successful answer with the body null
NullBodyIsNone ==
    /\ pc = "api_done"
    /\ returned = ReturnedNone
    /\ responses = <<Body(Http(200, TRUE), "null")>>

\* a call that ended on a not-found answer to its second request, after a
\* rate-limited first one
NotFoundEndsCall ==
    /\ pc = "api_done"
    /\ returned = ReturnedNone
    /\ responses = <<Http(429, TRUE), Http(404, TRUE)>>

-----------------------------------------------------------------------------
(* ComprehensiveBackup.backup_all_settings: the capture of a network, run
   twice over an unchanged source.  Every step is one read (one pass of a
   loop body, or one try block); the source's answer to a read is chosen by
   the environment the first time an endpoint is read and is the same every
   time after that.  Here `backup` is the dict backup_all_settings builds, with
   the keys of every dict kept as they are in the code (a dict is a function
   from its keys); the settings dict of a device is built in its place
   backup["device_settings"][serial]; `sub` holds the local interface_dhcp. *)

\* the number of reads of a capture the source may answer with absent or failed
MaxReadFaults == 1

\* the variables a capture leaves alone
capFrame == <<device_mapping, supported_products, port_schedule_id_mapping,
              qos_rule_id_mapping, link_aggregation_id_mapping,
              access_policy_id_mapping, restored_count, failed_count,
              interface_id_mapping, dhcp_server_id_mapping,
              static_route_id_mapping, rendezvous_point_id_mapping,
              restored_items, failed_items, summary, created, returned,
              attempt, responses, json_error>>

\* an endpoint: the network-level group or the device it belongs to, the name
\* of the resource and, for a read per interface, the interface
Ep(scope, name, id) == <<scope, name, id>>

\* the endpoints dicts, in their order
SwitchEndpoints ==
    <<"stp", "mtu", "settings", "accessPolicies", "portSchedules", "qosRules",
      "stormControl", "dhcpServerPolicy", "dscpToCosMappings",
      "alternateManagementInterface", "linkAggregations">>

RoutingEndpoints == <<"staticRoutes", "ospf", "multicast", "warmSpare">>

SecurityEndpoints == <<"accessControlLists", "portSecurity", "stpGuard">>

MonitoringEndpoints == <<"snmp", "syslog", "netflow", "alerts">>

\* the reads of a switch-class device between the management interface and
\* the per-interface DHCP loop: the key of settings the result goes under
\* ("top": settings itself) and the name of the result
SwitchDeviceReads ==
    <<[under |-> "top", name |-> "ports"],
      [under |-> "routing", name |-> "interfaces"],
      [under |-> "routing", name |-> "staticRoutes"],
      [under |-> "routing", name |-> "ospf"],
      [under |-> "routing", name |-> "multicast"],
      [under |-> "routing", name |-> "rendezvousPoints"],
      [under |-> "dhcp", name |-> "servers"],
      [under |-> "dhcp", name |-> "relays"]>>

\* device records as the device list returns them; a model is its first two
\* characters and the rest
Device(serial, model) == [serial |-> serial, model |-> model, networkId |-> "L1"]

SwitchQ1 == Device("Q1", <<"MS", "250-48">>)

SwitchQ2 == Device("Q2", <<"C9", "300-24">>)

AccessPointQ7 == Device("Q7", <<"MR", "46">>)

\* every device is taken for a switch
SwitchClassAnyModel(device_info) == device_info.model[1] \in {"MS", "C9", "MR"}

\* device_info.get('model', '').startswith('MS') or ....startswith('C9')
SwitchClass(device_info) == device_info.model[1] \in {"MS", "C9"}

\* what the source holds behind an endpoint
SourceValue(ep) ==
    CASE ep[2] = "interfaces" ->
            IF ep[1] = "Q1"
            THEN <<Iface("4", DefaultVlan), Iface(None, 30), Iface("", 40),
                   Iface("5", 10)>>
            ELSE <<>>
      [] ep[2] = "ports" -> <<[portId |-> "1"], [portId |-> "2"]>>
      [] ep[2] = "stacks" -> <<[name |-> "stack1", serials |-> {"Q1", "Q9"}]>>
      [] OTHER -> [of |-> ep[2]]

\* an answer of the source to a read: what the source holds behind the
\* endpoint, and whether the read delivers it ("ok"), reports absent ("none":
\* _api_call returns None) or fails ("exc": _api_call raises)
Answer(out, value) == [out |-> out, value |-> value]

\* the device lists of the source networks
Inventories ==
    {<<AccessPointQ7, SwitchQ1>>, <<SwitchQ2>>, <<>>}

\* the reads whose handler looks at the text of the exception: those of the
\* four network-level groups, of the management interface and of the ports
\* log a warning unless "404" is in str(e)
TextTested(ep) ==
    \/ ep[1] \in {"switch", "routing", "security", "monitoring"}
    \/ ep[2] \in {"management", "ports"}

\* what a read can end in: a value, None, an exception, and, where the
\* handler tells it apart, an exception whose text contains "404" (the text
\* of an HTTPError holds the URL, and so the identifiers in it)
ReadOutcomes(ep) ==
    IF TextTested(ep) THEN WriteOutcomes \cup {"exc404"} ELSE WriteOutcomes

\* the answers the source can give to a read: the one it gave before, or any
\* the budget of absent and failed reads allows
Answers(ep) ==
    IF ep \in DOMAIN source THEN {source[ep]}
    ELSE {Answer(o, SourceValue(ep)) :
             o \in {x \in ReadOutcomes(ep) : x = "ok" \/ faults < MaxReadFaults}}

\* a read of the clock that also lands in a field other than timestamp
NewBackupStampedId(t) ==
    [timestamp |-> t, org_id |-> "O1", org_name |-> "Org",
     network_id |-> ToString(t), network_name |-> "Net",
     network_info |-> EmptyMap, devices |-> <<>>,
     network_settings |-> [switch |-> EmptyMap, routing |-> EmptyMap,
                           security |-> EmptyMap, monitoring |-> EmptyMap],
     device_settings |-> EmptyMap]

\* the dict backup_all_settings starts from
NewBackup(t) ==
    [timestamp |-> t, org_id |-> "O1", org_name |-> "Org",
     network_id |-> "L1", network_name |-> "Net",
     network_info |-> EmptyMap, devices |-> <<>>,
     network_settings |-> [switch |-> EmptyMap, routing |-> EmptyMap,
                           security |-> EmptyMap, monitoring |-> EmptyMap],
     device_settings |-> EmptyMap]

\* the dict _backup_device_settings starts from
NewDeviceSettings(device_info) ==
    [k \in {"info", "ports", "management", "routing", "dhcp", "warmSpare"} |->
        IF k = "info" THEN device_info ELSE EmptyMap]

\* settings[name] = result, or settings[under][name] = result
Stored(device_settings, under, name, result) ==
    IF under = "top" THEN Put(device_settings, name, result)
    ELSE Put(device_settings, under, Put(device_settings[under], name, result))

\* the device of the current pass of `for device in devices`
device == backup.devices[devIdx]

serial == device.serial

InitBackup ==
    /\ pc = "backup_begin"
    /\ \E inv \in Inventories, o \in WriteOutcomes :
          /\ o # "ok" => inv = <<>>
          /\ source = (Ep("net", "devices", None) :>
                          Answer(o, inv))
          /\ faults = Cost(o)
    /\ backup = NewBackup(0)
    /\ snapshots = <<>>
    /\ now = 1
    /\ devIdx = 1
    /\ i = 1
    /\ sub = <<>>
    /\ calls = <<>>
    /\ warnings = <<>>
    /\ device_mapping = <<>>
    /\ supported_products = {}
    /\ port_schedule_id_mapping = EmptyMap
    /\ qos_rule_id_mapping = EmptyMap
    /\ link_aggregation_id_mapping = EmptyMap
    /\ access_policy_id_mapping = EmptyMap
    /\ restored_count = 0
    /\ failed_count = 0
    /\ interface_id_mapping = EmptyMap
    /\ dhcp_server_id_mapping = EmptyMap
    /\ static_route_id_mapping = EmptyMap
    /\ rendezvous_point_id_mapping = EmptyMap
    /\ restored_items = 0
    /\ failed_items = 0
    /\ summary = <<>>
    /\ created = 0
    /\ returned = NotReturned
    /\ attempt = 0
    /\ responses = <<>>
    /\ json_error = "RequestException"

\* what a read does to the source, the budget and the trace
Read(ep, ans) ==
    /\ ans \in Answers(ep)
    /\ source' = Put(source, ep, ans)
    /\ faults' = IF ep \in DOMAIN source THEN faults ELSE faults + Cost(ans.out)
    /\ calls' = Append(calls, Call("GET", ep[2], ep[1], ep[3], Len(snapshots) + 1,
                                   NoData, ans.out))

\* backup_all_settings raises: the run is over and yields no snapshot
Aborted ==
    /\ snapshots' = Append(snapshots, Raises)
    /\ pc' = "backup_return"

\* the backup dict is made; datetime.now() is read
BackupBegin ==
    /\ pc = "backup_begin"
    /\ Len(snapshots) < 2
    /\ backup' = NewBackup(now)
    /\ now' = now + 1
    /\ pc' = "network_info"
    /\ i' = 1
    /\ devIdx' = 1
    /\ sub' = <<>>
    /\ calls' = <<>>
    /\ warnings' = <<>>
    /\ UNCHANGED <<source, snapshots, faults>>
    /\ UNCHANGED capFrame

\* backup["network_info"] = self.api.get_network_info(network_id), outside
\* any try block
BackupNetworkInfo ==
    /\ pc = "network_info"
    /\ \E ans \in Answers(Ep("net", "info", None)) :
          /\ Read(Ep("net", "info", None), ans)
          /\ IF ans.out = "exc"
             THEN Aborted /\ UNCHANGED backup
             ELSE /\ backup' = [backup EXCEPT !.network_info =
                                     IF ans.out = "ok" THEN ans.value ELSE None]
                  /\ pc' = "devices"
                  /\ UNCHANGED snapshots
    /\ UNCHANGED <<now, devIdx, i, sub, warnings>>
    /\ UNCHANGED capFrame

\* devices = self.api.get_devices(network_id); len(devices), outside any try
\* block
BackupDevices ==
    /\ pc = "devices"
    /\ \E ans \in Answers(Ep("net", "devices", None)) :
          /\ Read(Ep("net", "devices", None), ans)
          /\ IF ans.out = "exc"
             THEN Aborted /\ UNCHANGED backup
             ELSE IF ans.out = "none"
             THEN Aborted /\ backup' = [backup EXCEPT !.devices = None]
             ELSE /\ backup' = [backup EXCEPT !.devices = ans.value]
                  /\ pc' = "switch"
                  /\ UNCHANGED snapshots
    /\ i' = 1
    /\ UNCHANGED <<now, devIdx, sub, warnings>>
    /\ UNCHANGED capFrame

\* one pass of the loop of a network-level group: the result is stored under
\* its name when it is not None; a failure is logged
BackupGroupRead(group, endpoints, after) ==
    /\ pc = group
    /\ i <= Len(endpoints)
    /\ \E ans \in Answers(Ep(group, endpoints[i], None)) :
          /\ Read(Ep(group, endpoints[i], None), ans)
          /\ backup' = IF ans.out = "ok"
                       THEN [backup EXCEPT !.network_settings[group] =
                                               Put(@, endpoints[i], ans.value)]
                       ELSE backup
          /\ warnings' = IF ans.out = "exc"
                         THEN Append(warnings, Warn("backupFailed", group,
                                                    <<endpoints[i]>>, i))
                         ELSE warnings
    /\ i' = IF i = Len(endpoints) THEN 1 ELSE i + 1
    /\ pc' = IF i = Len(endpoints) THEN after ELSE group
    /\ UNCHANGED <<snapshots, now, devIdx, sub>>
    /\ UNCHANGED capFrame

BackupSwitchSetting == BackupGroupRead("switch", SwitchEndpoints, "routing")

BackupRoutingSetting == BackupGroupRead("routing", RoutingEndpoints, "security")

BackupSecuritySetting == BackupGroupRead("security", SecurityEndpoints, "monitoring")

BackupMonitoringSetting == BackupGroupRead("monitoring", MonitoringEndpoints, "device")

\* the head of `for device in devices`; _backup_device_settings makes its dict
\* and reads the management interface
BackupManagement ==
    /\ pc = "device"
    /\ devIdx <= Len(backup.devices)
    /\ \E ans \in Answers(Ep(serial, "management", None)) :
          /\ Read(Ep(serial, "management", None), ans)
          /\ backup' = [backup EXCEPT !.device_settings =
                           Put(@, serial,
                               IF ans.out = "ok"
                               THEN Put(NewDeviceSettings(device), "management", ans.value)
                               ELSE NewDeviceSettings(device))]
          /\ warnings' = IF ans.out = "exc"
                         THEN Append(warnings, Warn("backupFailed", serial,
                                                    <<"management">>, 0))
                         ELSE warnings
    /\ IF SwitchClass(device)
       THEN pc' = "device_reads" /\ UNCHANGED devIdx
       ELSE pc' = "device" /\ devIdx' = devIdx + 1
    /\ i' = 1
    /\ sub' = <<>>
    /\ UNCHANGED <<snapshots, now>>
    /\ UNCHANGED capFrame

\* one of the reads of a switch-class device, each in its own try block
BackupSwitchDeviceRead ==
    /\ pc = "device_reads"
    /\ i <= Len(SwitchDeviceReads)
    /\ LET rd == SwitchDeviceReads[i]
       IN \E ans \in Answers(Ep(serial, rd.name, None)) :
             /\ Read(Ep(serial, rd.name, None), ans)
             /\ backup' = IF ans.out = "ok"
                          THEN [backup EXCEPT !.device_settings[serial] =
                                   Stored(@, rd.under, rd.name, ans.value)]
                          ELSE backup
             /\ warnings' = IF ans.out = "exc" /\ rd.name = "ports"
                            THEN Append(warnings, Warn("backupFailed", serial,
                                                       <<rd.name>>, i))
                            ELSE warnings
    /\ i' = IF i = Len(SwitchDeviceReads) THEN 1 ELSE i + 1
    /\ pc' = IF i = Len(SwitchDeviceReads) THEN "interface_dhcp_reads" ELSE "device_reads"
    /\ UNCHANGED <<snapshots, now, devIdx, sub>>
    /\ UNCHANGED capFrame

\* the loop walks the interfaces the source holds, whatever the read delivered
CapturedInterfacesOfSource == SourceValue(Ep(serial, "interfaces", None))

\* settings["routing"].get("interfaces"): the captured interfaces, if any
CapturedInterfaces ==
    LET routing == backup.device_settings[serial]["routing"]
    IN IF "interfaces" \in DOMAIN routing THEN routing["interfaces"] ELSE <<>>

\* one pass of the per-interface DHCP loop: `if interface_id:` lets an
\* interface without interfaceId, or with one that is None or empty, pass
\* without a read
BackupInterfaceDhcp ==
    /\ pc = "interface_dhcp_reads"
    /\ i <= Len(CapturedInterfaces)
    /\ LET interface_id == CapturedInterfaces[i].interfaceId
       IN IF Falsy(interface_id)
          THEN UNCHANGED <<source, faults, calls, sub>>
          ELSE \E ans \in Answers(Ep(serial, "interfaceDhcp", interface_id)) :
                  /\ Read(Ep(serial, "interfaceDhcp", interface_id), ans)
                  /\ sub' = IF ans.out = "ok"
                            THEN Append(sub, [interfaceId |-> interface_id,
                                              dhcpSettings |-> ans.value])
                            ELSE sub
    /\ i' = i + 1
    /\ UNCHANGED <<backup, snapshots, now, devIdx, pc, warnings>>
    /\ UNCHANGED capFrame

\* after the loop: a non-empty interface_dhcp goes under settings["dhcp"]
InterfaceDhcpStored ==
    /\ pc = "interface_dhcp_reads"
    /\ i > Len(CapturedInterfaces)
    /\ backup' = IF Len(sub) > 0
                 THEN [backup EXCEPT !.device_settings[serial] =
                          Stored(@, "dhcp", "interfaceDhcp", sub)]
                 ELSE backup
    /\ pc' = "warm_spare_read"
    /\ i' = 1
    /\ sub' = <<>>
    /\ UNCHANGED <<source, snapshots, now, devIdx, calls, warnings, faults>>
    /\ UNCHANGED capFrame

BackupWarmSpare ==
    /\ pc = "warm_spare_read"
    /\ \E ans \in Answers(Ep(serial, "warmSpare", None)) :
          /\ Read(Ep(serial, "warmSpare", None), ans)
          /\ backup' = IF ans.out = "ok"
                       THEN [backup EXCEPT !.device_settings[serial] =
                                Stored(@, "top", "warmSpare", ans.value)]
                       ELSE backup
    /\ pc' = "stacks"
    /\ UNCHANGED <<snapshots, now, devIdx, i, sub, warnings>>
    /\ UNCHANGED capFrame

\* every listed stack is taken for the device's own
StacksOfAnyMember(stacks, member) == stacks

\* the stacks of the answer the device is a member of
StacksOf(stacks, member) == SelectSeq(stacks, LAMBDA stack : member \in stack.serials)

\* the stack lookup; _backup_device_settings returns and the loop goes on
BackupStackInfo ==
    /\ pc = "stacks"
    /\ \E ans \in Answers(Ep("net", "stacks", None)) :
          /\ Read(Ep("net", "stacks", None), ans)
          /\ backup' = IF ans.out = "ok" /\ Len(StacksOf(ans.value, serial)) > 0
                       THEN [backup EXCEPT !.device_settings[serial] =
                                Stored(@, "top", "stackInfo",
                                       StacksOf(ans.value, serial)[1])]
                       ELSE backup
    /\ pc' = "device"
    /\ devIdx' = devIdx + 1
    /\ i' = 1
    /\ UNCHANGED <<snapshots, now, sub, warnings>>
    /\ UNCHANGED capFrame

\* return backup
BackupReturn ==
    /\ pc = "device"
    /\ devIdx > Len(backup.devices)
    /\ snapshots' = Append(snapshots, Returned("value", backup))
    /\ pc' = "backup_return"
    /\ UNCHANGED <<backup, source, now, devIdx, i, sub, calls, warnings, faults>>
    /\ UNCHANGED capFrame

\* the caller captures the same network once more
BackupAgain ==
    /\ pc = "backup_return"
    /\ Len(snapshots) < 2
    /\ pc' = "backup_begin"
    /\ UNCHANGED <<backup, source, snapshots, now, devIdx, i, sub, calls, warnings, faults>>
    /\ UNCHANGED capFrame

NextBackup ==
    \/ BackupBegin
    \/ BackupNetworkInfo
    \/ BackupDevices
    \/ BackupSwitchSetting
    \/ BackupRoutingSetting
    \/ BackupSecuritySetting
    \/ BackupMonitoringSetting
    \/ BackupManagement
    \/ BackupSwitchDeviceRead
    \/ BackupInterfaceDhcp
    \/ InterfaceDhcpStored
    \/ BackupWarmSpare
    \/ BackupStackInfo
    \/ BackupReturn
    \/ BackupAgain

SpecBackup == InitBackup /\ [][NextBackup]_vars

\* the endpoints dict of a network-level group
GroupEndpoints(group) ==
    CASE group = "switch" -> SwitchEndpoints
      [] group = "routing" -> RoutingEndpoints
      [] group = "security" -> SecurityEndpoints
      [] group = "monitoring" -> MonitoringEndpoints

\* the source answered the read of the endpoint with `out`
Answered(ep, out) == ep \in DOMAIN source /\ source[ep].out = out

\* no resource the source answered with `out` has a key in the snapshot b,
\* at network level and in the settings of every device
NoKeyFor(b, out) ==
    /\ \A group \in {"switch", "routing", "security", "monitoring"} :
          \A n \in 1..Len(GroupEndpoints(group)) :
              Answered(Ep(group, GroupEndpoints(group)[n], None), out)
                  => GroupEndpoints(group)[n] \notin DOMAIN b.network_settings[group]
    /\ \A sr \in DOMAIN b.device_settings :
          /\ \A k \in {"ports", "management", "warmSpare"} :
                Answered(Ep(sr, k, None), out) => k \notin DOMAIN b.device_settings[sr]
          /\ \A n \in 2..Len(SwitchDeviceReads) :
                Answered(Ep(sr, SwitchDeviceReads[n].name, None), out)
                    => SwitchDeviceReads[n].name
                          \notin DOMAIN b.device_settings[sr][SwitchDeviceReads[n].under]

\* C11 as stated: a resource whose read reports absent has no key in the
\* returned snapshot, at network level and at device level (ports,
\* management, warmSpare, and the entries of routing and dhcp).
C11_AbsentKeyOmitted ==
    \A n \in 1..Len(snapshots) :
        snapshots[n].kind = "value" => NoKeyFor(snapshots[n].value, "none")

\* C12 as stated: whatever the reads answer, backup_all_settings returns a
\* snapshot, in which no failed resource has a key.
C12_CaptureNeverAborts ==
    \A n \in 1..Len(snapshots) :
        /\ snapshots[n].kind = "value"
        /\ NoKeyFor(snapshots[n].value, "exc")

\* What a capture holds, read off the answers of the source alone: the
\* operators below take nothing from the run (its backup dict, its loop
\* variables, the clock), only what the source answered to each endpoint.

\* what the source delivered for an endpoint it answered with a value
Delivered(ep) == source[ep].value

\* the dict of a network-level group: a key for every endpoint of the group
\* the source answered with a value
GroupOfSource(group) ==
    LET names == {GroupEndpoints(group)[n] : n \in 1..Len(GroupEndpoints(group))}
    IN [x \in {y \in names : Answered(Ep(group, y, None), "ok")}
           |-> Delivered(Ep(group, x, None))]

\* the routing or dhcp dict of a switch: a key for every read filed under it
\* that the source answered with a value
UnderOfSource(sr, under) ==
    LET names == {SwitchDeviceReads[n].name :
                     n \in {m \in 1..Len(SwitchDeviceReads) :
                               SwitchDeviceReads[m].under = under}}
    IN [x \in {y \in names : Answered(Ep(sr, y, None), "ok")}
           |-> Delivered(Ep(sr, x, None))]

\* the per-interface DHCP list of a switch: an entry for every delivered
\* interface with an interfaceId whose own read delivered, in their order
InterfaceDhcpOfSource(sr) ==
    IF Answered(Ep(sr, "interfaces", None), "ok")
    THEN LET kept == SelectSeq(Delivered(Ep(sr, "interfaces", None)),
                         LAMBDA f : /\ f.interfaceId \notin {None, ""}
                                    /\ Answered(Ep(sr, "interfaceDhcp", f.interfaceId),
                                                "ok"))
         IN [k \in 1..Len(kept) |->
                [interfaceId |-> kept[k].interfaceId,
                 dhcpSettings |-> Delivered(Ep(sr, "interfaceDhcp", kept[k].interfaceId))]]
    ELSE <<>>

\* the listed stacks the device is a member of
StacksOfSource(sr) ==
    IF Answered(Ep("net", "stacks", None), "ok")
    THEN SelectSeq(Delivered(Ep("net", "stacks", None)), LAMBDA st : sr \in st.serials)
    ELSE <<>>

\* a top-level key of a device's settings: the value the source delivered, or
\* the empty dict the settings start with
TopOfSource(sr, name) ==
    IF Answered(Ep(sr, name, None), "ok") THEN Delivered(Ep(sr, name, None))
    ELSE EmptyMap

\* the settings of a device record
DeviceOfSource(d) ==
    LET sr == d.serial
        switch == d.model[1] \in {"MS", "C9"}
        dhcp == UnderOfSource(sr, "dhcp")
        keys == {"info", "ports", "management", "routing", "dhcp", "warmSpare"}
                    \cup (IF switch /\ StacksOfSource(sr) # <<>>
                          THEN {"stackInfo"} ELSE {})
    IN [k \in keys |->
           CASE k = "info" -> d
             [] k = "management" -> TopOfSource(sr, "management")
             [] k = "ports" -> IF switch THEN TopOfSource(sr, "ports") ELSE EmptyMap
             [] k = "warmSpare" -> IF switch THEN TopOfSource(sr, "warmSpare") ELSE EmptyMap
             [] k = "routing" -> IF switch THEN UnderOfSource(sr, "routing") ELSE EmptyMap
             [] k = "dhcp" ->
                   IF ~switch THEN EmptyMap
                   ELSE IF InterfaceDhcpOfSource(sr) = <<>> THEN dhcp
                   ELSE [x \in DOMAIN dhcp \cup {"interfaceDhcp"} |->
                            IF x = "interfaceDhcp" THEN InterfaceDhcpOfSource(sr)
                            ELSE dhcp[x]]
             [] k = "stackInfo" -> StacksOfSource(sr)[1]]

\* the capture of the source raises: the read of the network raised, or the
\* device list was not delivered
RaisesOfSource ==
    \/ Answered(Ep("net", "info", None), "exc")
    \/ ~Answered(Ep("net", "devices", None), "ok")

\* the snapshot of the source, its timestamp left at 0: of a serial listed
\* more than once the record listed last gives the settings
SnapshotOfSource ==
    LET devices == Delivered(Ep("net", "devices", None))
        last(sr) == CHOOSE n \in 1..Len(devices) :
                        /\ devices[n].serial = sr
                        /\ \A m \in (n + 1)..Len(devices) : devices[m].serial # sr
    IN [timestamp |-> 0, org_id |-> "O1", org_name |-> "Org",
        network_id |-> "L1", network_name |-> "Net",
        network_info |-> IF Answered(Ep("net", "info", None), "ok")
                         THEN Delivered(Ep("net", "info", None)) ELSE None,
        devices |-> devices,
        network_settings |->
            [g \in {"switch", "routing", "security", "monitoring"} |-> GroupOfSource(g)],
        device_settings |->
            [sr \in {devices[n].serial : n \in 1..Len(devices)} |->
                DeviceOfSource(devices[last(sr)])]]

\* C18: when a capture has ended, it and every capture before it have ended
\* as the answers of the source alone determine: a capture raises exactly
\* when the read of the network raised or the device list was not
\* delivered, and otherwise returns, in every field except timestamp, the
\* snapshot the answers determine, whatever the capture before it left
\* behind; so two captures of a source that gives the same answer to every
\* read end the same way, and the snapshots they return are equal in every
\* field except timestamp.
C18_CaptureRepeatable ==
    pc = "backup_return" =>
        /\ \A n \in 1..Len(snapshots) :
              /\ snapshots[n].kind = IF RaisesOfSource THEN "raised" ELSE "value"
              /\ snapshots[n].kind = "value" =>
                    [snapshots[n].value EXCEPT !.timestamp = 0] = SnapshotOfSource
        /\ Len(snapshots) = 2 =>
              /\ snapshots[1].kind = snapshots[2].kind
              /\ snapshots[1].kind = "value" =>
                    [snapshots[1].value EXCEPT !.timestamp = 0]
                        = [snapshots[2].value EXCEPT !.timestamp = 0]

\* two snapshots of a network with a switch, taken at different times, with a
\* read that was absent or failed
C18_Witness ==
    /\ Len(snapshots) = 2
    /\ snapshots[1].kind = "value"
    /\ snapshots[2].kind = "value"
    /\ snapshots[1].value.timestamp # snapshots[2].value.timestamp
    /\ "Q1" \in DOMAIN snapshots[2].value.device_settings
    /\ "interfaceDhcp" \in DOMAIN snapshots[2].value.device_settings["Q1"]["dhcp"]
    /\ faults = MaxReadFaults


\* the per-interface DHCP entries a capture keeps: one for each captured
\* interface that carries an interfaceId (one that is not None nor empty) and
\* whose read delivered
KeptInterfaceDhcp(sr, interfaces) ==
    LET kept == SelectSeq(interfaces,
                    LAMBDA f : /\ f.interfaceId \notin {None, ""}
                               /\ Answered(Ep(sr, "interfaceDhcp", f.interfaceId), "ok"))
    IN [k \in 1..Len(kept) |->
           [interfaceId |-> kept[k].interfaceId,
            dhcpSettings |-> SourceValue(Ep(sr, "interfaceDhcp", kept[k].interfaceId))]]

\* C33: a per-interface DHCP read comes after a delivered routing-interfaces
\* read of the same device, is for an interfaceId of a captured interface and
\* is issued once; a returned snapshot has exactly one such read per captured
\* interface with an interfaceId (one that is not None nor empty) and no
\* other, none and no interfaceDhcp key when the routing-interfaces read was
\* absent or failed, and its interfaceDhcp list lacks exactly the entries
\* whose own read did not deliver.
C33_InterfaceDhcpReads ==
    /\ \A n \in CallIdx :
          calls[n].res = "interfaceDhcp" =>
              /\ \E m \in 1..(n - 1) :
                    /\ calls[m].res = "interfaces"
                    /\ calls[m].dev = calls[n].dev
                    /\ calls[m].out = "ok"
              /\ calls[n].path \notin {None, ""}
              /\ \E f \in Range(SourceValue(Ep(calls[n].dev, "interfaces", None))) :
                    f.interfaceId = calls[n].path
              /\ \A m \in CallIdx :
                    (/\ calls[m].res = "interfaceDhcp"
                     /\ calls[m].dev = calls[n].dev
                     /\ calls[m].path = calls[n].path) => m = n
    /\ (pc = "backup_return" /\ snapshots[Len(snapshots)].kind = "value") =>
          \A sr \in DOMAIN backup.device_settings :
              LET st == backup.device_settings[sr]
                  interfaces == IF "interfaces" \in DOMAIN st["routing"]
                                THEN st["routing"]["interfaces"] ELSE <<>>
                  reads == {n \in CallIdx : /\ calls[n].res = "interfaceDhcp"
                                            /\ calls[n].dev = sr}
              IN /\ \A f \in Range(interfaces) :
                        Cardinality({n \in reads : calls[n].path = f.interfaceId})
                            = IF f.interfaceId \in {None, ""} THEN 0 ELSE 1
                 /\ \A n \in reads :
                        \E f \in Range(interfaces) : f.interfaceId = calls[n].path
                 /\ ~Answered(Ep(sr, "interfaces", None), "ok") =>
                        /\ reads = {}
                        /\ "interfaceDhcp" \notin DOMAIN st["dhcp"]
                 /\ IF KeptInterfaceDhcp(sr, interfaces) = <<>>
                    THEN "interfaceDhcp" \notin DOMAIN st["dhcp"]
                    ELSE /\ "interfaceDhcp" \in DOMAIN st["dhcp"]
                         /\ st["dhcp"]["interfaceDhcp"] = KeptInterfaceDhcp(sr, interfaces)

\* a returned snapshot of a switch with four captured interfaces, one whose
\* interfaceId is None and one whose interfaceId is empty, where the read of
\* one interface failed and the entry of the other is kept
C33_Witness ==
    /\ pc = "backup_return"
    /\ snapshots[Len(snapshots)].kind = "value"
    /\ "Q1" \in DOMAIN backup.device_settings
    /\ "interfaces" \in DOMAIN backup.device_settings["Q1"]["routing"]
    /\ Len(backup.device_settings["Q1"]["routing"]["interfaces"]) = 4
    /\ Answered(Ep("Q1", "interfaceDhcp", "4"), "exc")
    /\ "interfaceDhcp" \in DOMAIN backup.device_settings["Q1"]["dhcp"]
    /\ Len(backup.device_settings["Q1"]["dhcp"]["interfaceDhcp"]) = 1
    /\ Cardinality({n \in CallIdx : calls[n].res = "interfaceDhcp"}) = 2


\* C34: the capture of a device whose model starts with neither MS nor C9 is
\* one step that issues the management read of that device and nothing else,
\* and goes on to the next device: no ports, routing, DHCP, warm-spare or
\* stack read is issued for it.
C34_NonSwitchManagementOnly ==
    [][(/\ pc \in {"device", "device_reads", "interface_dhcp_reads",
                   "warm_spare_read", "stacks"}
        /\ devIdx <= Len(backup.devices)
        /\ device.model[1] \notin {"MS", "C9"})
           => /\ pc = "device"
              /\ Len(NewCalls) = 1
              /\ NewCalls[1].res = "management"
              /\ NewCalls[1].dev = serial
              /\ pc' = "device"
              /\ devIdx' = devIdx + 1
              /\ \A k \in {"ports", "routing", "dhcp", "warmSpare"} :
                    backup'.device_settings[serial][k] = EmptyMap
              /\ "stackInfo" \notin DOMAIN backup'.device_settings[serial]]_vars

\* a returned snapshot of a network with an access point and a switch: one
\* read was issued for the access point, and the switch's reads went on
C34_Witness ==
    /\ pc = "backup_return"
    /\ snapshots[Len(snapshots)].kind = "value"
    /\ "Q7" \in DOMAIN backup.device_settings
    /\ {calls[n].res : n \in {m \in CallIdx : calls[m].dev = "Q7"}} = {"management"}
    /\ \E n \in CallIdx : calls[n].res = "stacks"
    /\ \E n \in CallIdx : calls[n].res = "ports" /\ calls[n].dev = "Q1"


\* the two halves of the life of stackInfo: a run is a capture of a source
\* network, or a restore of a snapshot
InitStack == InitBackup \/ Init

NextStack == NextBackup \/ Next

SpecStack == InitStack /\ [][NextStack]_vars

\* the capture half: the stack lookup of a device is one read that logs
\* nothing and ends the capture of the device whatever the answer; stackInfo
\* is recorded exactly when the lookup delivered a list with a stack that has
\* the device's serial among its serials, and it is that stack
StackLookupAbsorbed ==
    pc = "stacks" =>
        LET listed == SourceValue(Ep("net", "stacks", None))
            member == {n \in 1..Len(listed) : serial \in listed[n].serials}
            st     == backup'.device_settings[serial]
        IN /\ Len(NewCalls) = 1
           /\ NewCalls[1].res = "stacks"
           /\ warnings' = warnings
           /\ pc' = "device"
           /\ devIdx' = devIdx + 1
           /\ snapshots' = snapshots
           /\ "stackInfo" \in DOMAIN st
                 <=> (NewCalls[1].out = "ok" /\ member # {})
           /\ "stackInfo" \in DOMAIN st
                 => \E n \in member : st["stackInfo"] = listed[n]
           /\ \A k \in DOMAIN backup.device_settings[serial] :
                 st[k] = backup.device_settings[serial][k]

\* the restore half: the only step of a restore that looks at stackInfo is
\* the end of a device's restore, which issues no call and, for a device
\* captured with stackInfo, logs the one warning that stack membership must
\* be reconfigured manually; and no step of a restore issues a write that is
\* addressed to a stack
StackInfoOnlyNoted ==
    /\ pc = "dev_end" =>
          /\ calls' = calls
          /\ NewWarnings = IF Len(settings.stackInfo) > 0
                           THEN <<Warn("stackManual", new_serial, <<>>, 0)>>
                           ELSE <<>>
    /\ \A n \in 1..Len(NewCalls) :
          IsWrite(NewCalls[n]) => NewCalls[n].res \notin {"stacks", "stackInfo"}
    /\ pc # "dev_end" =>
          \A w \in 1..Len(NewWarnings) : NewWarnings[w].kind # "stackManual"

\* C35: during capture the stack lookup of a device is one read that logs
\* nothing and ends the capture of the device whatever the answer, and
\* stackInfo is recorded exactly when the lookup delivered a list with a stack
\* that has the device's serial among its serials, and it is that stack;
\* during restore no write is issued for stack membership: a captured
\* stackInfo leads to one warning at the end of the device's restore and to no
\* call.
C35_StackLookupAbsorbed ==
    [][StackLookupAbsorbed /\ StackInfoOnlyNoted]_vars

\* a returned snapshot of a switch that is a member of a stack, taken while
\* the stack lookup failed: no stackInfo and no warning
C35_Witness ==
    /\ pc = "backup_return"
    /\ snapshots[Len(snapshots)].kind = "value"
    /\ Answered(Ep("net", "stacks", None), "exc")
    /\ "Q1" \in DOMAIN backup.device_settings
    /\ "stackInfo" \notin DOMAIN backup.device_settings["Q1"]
    /\ "interfaces" \in DOMAIN backup.device_settings["Q1"]["routing"]
    /\ warnings = <<>>


\* the restore of a device captured with stackInfo is over: the warning was
\* logged after the last port write, and no call followed it
StackNoteLogged ==
    /\ pc \in {"dev_begin", "done"}
    /\ "timestamp" \notin DOMAIN backup
    /\ Len(warnings) > 0
    /\ warnings[Len(warnings)].kind = "stackManual"
    /\ \E n \in CallIdx : calls[n].res = "port" /\ calls[n].dev = warnings[Len(warnings)].dev


-----------------------------------------------------------------------------
(* AutomatedMigrationTool.execute_migration: one run.  Every step is one
   statement of the function that calls out: an access check, the capture, the
   write of the backup file, an operation of the dashboard UI, a call of the
   target API, the restore.  What the callee answers is chosen by the
   environment: "ok" (True, or the value), "false" (False) or "exc" (it
   raises).  `calls` is the trace of these operations; backup_all_settings and
   restore_all_settings are one step each here and are modelled step by step
   by SpecBackup and Spec. *)

\* the variables a migration run leaves alone
migFrame == <<devIdx, i, supported_products, port_schedule_id_mapping,
              qos_rule_id_mapping, link_aggregation_id_mapping,
              access_policy_id_mapping, restored_count, failed_count,
              interface_id_mapping, dhcp_server_id_mapping,
              static_route_id_mapping, rendezvous_point_id_mapping,
              restored_items, failed_items, sub, warnings, summary, faults,
              created, snapshots, attempt, responses, json_error>>

\* the id create_network returns: of the network it found or created
TargetNetworkId == "T1"

\* an operation of the migration: who performs it, its name and its object
Op(method, res, dev, data, out) == Call(method, res, dev, None, 0, data, out)

\* what each callee can answer: the access checks and add_devices_to_network
\* catch every exception and return a bool; the UI operations return a bool or
\* raise; the others return or raise
MigOutcomes(res) ==
    CASE res \in {"verify_org_access", "verify_network_access",
                  "add_devices_to_network"} -> {"ok", "false"}
      [] res \in {"select_organization", "remove_devices_from_network",
                  "unclaim_devices", "claim_devices"} -> {"ok", "false", "exc"}
      [] OTHER -> {"ok", "exc"}

\* a run that goes on whenever the callee returned, whatever it returned
ProceedsOnAnyReturn(res, out) == out # "exc"

\* whether execute_migration goes on after the answer: a False from the
\* removal or from add_devices_to_network is only logged, any other False
\* makes it raise, and an exception of a callee propagates
Proceeds(res, out) ==
    IF res \in {"remove_devices_from_network", "add_devices_to_network"}
    THEN out # "exc"
    ELSE out = "ok"

\* an order that moves the devices before the capture
MigStepAfterCaptureLate(step) ==
    CASE step = "verify_source_org" -> "verify_source_net"
      [] step = "verify_source_net" -> "verify_target_org"
      [] step = "verify_target_org" -> "ui_enter"
      [] step = "ui_enter" -> "login"
      [] step = "login" -> "select_source"
      [] step = "select_source" -> "remove"
      [] step = "remove" -> "unclaim"
      [] step = "unclaim" -> "select_target"
      [] step = "select_target" -> "claim"
      [] step = "claim" -> "capture"
      [] step = "capture" -> "save"
      [] step = "save" -> "device_serials"
      [] step = "device_serials" -> "create_network"
      [] step = "create_network" -> "add_devices"
      [] step = "add_devices" -> "restore"
      [] step = "restore" -> "mig_return"

\* the order of the statements of execute_migration
MigStepAfter(step) ==
    CASE step = "verify_source_org" -> "verify_source_net"
      [] step = "verify_source_net" -> "verify_target_org"
      [] step = "verify_target_org" -> "capture"
      [] step = "capture" -> "save"
      [] step = "save" -> "device_serials"
      [] step = "device_serials" -> "ui_enter"
      [] step = "ui_enter" -> "login"
      [] step = "login" -> "select_source"
      [] step = "select_source" -> "remove"
      [] step = "remove" -> "unclaim"
      [] step = "unclaim" -> "select_target"
      [] step = "select_target" -> "claim"
      [] step = "claim" -> "create_network"
      [] step = "create_network" -> "add_devices"
      [] step = "add_devices" -> "restore"
      [] step = "restore" -> "mig_return"

\* device_serials = [d['serial'] for d in backup['devices']]
device_serials == [n \in 1..Len(backup.devices) |-> backup.devices[n].serial]

InitMigration ==
    /\ pc = "verify_source_org"
    /\ backup = NewBackup(0)
    /\ now = 1
    /\ device_mapping = <<>>
    /\ calls = <<>>
    /\ returned = NotReturned
    /\ devIdx = 1
    /\ i = 1
    /\ sub = NoSub
    /\ warnings = <<>>
    /\ supported_products = {}
    /\ port_schedule_id_mapping = EmptyMap
    /\ qos_rule_id_mapping = EmptyMap
    /\ link_aggregation_id_mapping = EmptyMap
    /\ access_policy_id_mapping = EmptyMap
    /\ restored_count = 0
    /\ failed_count = 0
    /\ interface_id_mapping = EmptyMap
    /\ dhcp_server_id_mapping = EmptyMap
    /\ static_route_id_mapping = EmptyMap
    /\ rendezvous_point_id_mapping = EmptyMap
    /\ restored_items = 0
    /\ failed_items = 0
    /\ summary = <<>>
    /\ faults = 0
    /\ created = 0
    /\ source = EmptyMap
    /\ snapshots = <<>>
    /\ attempt = 0
    /\ responses = <<>>
    /\ json_error = "RequestException"

\* the run ends with an exception
MigRaise ==
    /\ pc' = "mig_return"
    /\ returned' = Raises

\* a statement that calls out and goes on, or raises, by the answer alone
MigCall(step, method, res, dev, data) ==
    /\ pc = step
    /\ \E out \in MigOutcomes(res) :
          /\ calls' = Append(calls, Op(method, res, dev, data, out))
          /\ IF Proceeds(res, out)
             THEN pc' = MigStepAfter(step) /\ UNCHANGED returned
             ELSE MigRaise
    /\ UNCHANGED <<backup, device_mapping, now, source>>
    /\ UNCHANGED migFrame

VerifySourceOrg ==
    MigCall("verify_source_org", "API", "verify_org_access", "O1", NoData)

VerifySourceNetwork ==
    MigCall("verify_source_net", "API", "verify_network_access", "L1", NoData)

VerifyTargetOrg ==
    MigCall("verify_target_org", "API", "verify_org_access", "O2", NoData)

\* the device lists a migration captures: those of the source networks, and
\* one that lists a serial twice, first as a switch and then as an access point
MigInventories ==
    Inventories \cup {<<SwitchQ1, Device("Q1", <<"MR", "46">>), SwitchQ2>>}

\* backup["device_settings"] of a source whose settings reads all report
\* absence: for every device the dict _backup_device_settings starts from.
\* The loop over the devices assigns backup['device_settings'][serial] once
\* per record, so the last record of a serial is the one that stays
CapturedDevices(inv) ==
    [sr \in {inv[n].serial : n \in 1..Len(inv)} |->
        NewDeviceSettings(
            inv[CHOOSE n \in 1..Len(inv) :
                    /\ inv[n].serial = sr
                    /\ \A m \in (n + 1)..Len(inv) : inv[m].serial # sr])]

\* backup = self.backup_tool.backup_all_settings(...): a snapshot of one of
\* the source networks, or an exception; as in BackupNetworkInfo its
\* network_info is None when the source reported that read absent; the
\* settings reads of its devices all reported absence
MigCapture ==
    /\ pc = "capture"
    /\ \E out \in MigOutcomes("backup_all_settings"), inv \in MigInventories,
          info \in {"ok", "none"} :
          /\ out = "exc" => (inv = <<>> /\ info = "ok")
          /\ calls' = Append(calls, Op("API", "backup_all_settings", "L1", NoData, out))
          /\ source' = (Ep("net", "info", None) :>
                            Answer(info, SourceValue(Ep("net", "info", None))))
          /\ IF out = "ok"
             THEN /\ backup' = [NewBackup(now) EXCEPT
                                   !.devices = inv,
                                   !.network_info =
                                       IF info = "ok"
                                       THEN SourceValue(Ep("net", "info", None))
                                       ELSE None,
                                   !.device_settings = CapturedDevices(inv)]
                  /\ pc' = MigStepAfter("capture")
                  /\ UNCHANGED returned
             ELSE /\ MigRaise
                  /\ UNCHANGED backup
    /\ now' = now + 1
    /\ UNCHANGED device_mapping
    /\ UNCHANGED migFrame

\* json.dump(backup, f) into the backup file
MigSave ==
    MigCall("save", "FILE", "backup_file", "L1", backup)

\* the device list of the snapshot; without devices the run returns None
MigDeviceSerials ==
    /\ pc = "device_serials"
    /\ IF Len(device_serials) = 0
       THEN pc' = "mig_return" /\ returned' = ReturnedNone
       ELSE pc' = MigStepAfter("device_serials") /\ UNCHANGED returned
    /\ UNCHANGED <<backup, device_mapping, now, calls, source>>
    /\ UNCHANGED migFrame

\* with MerakiUIAutomation(...) as ui: __enter__ sets the driver up
MigUiEnter ==
    MigCall("ui_enter", "UI", "setup_driver", "ui", NoData)

MigLogin ==
    MigCall("login", "UI", "login", "ui", NoData)

MigSelectSource ==
    MigCall("select_source", "UI", "select_organization", "O1", NoData)

MigRemove ==
    MigCall("remove", "UI", "remove_devices_from_network", "L1",
            [serials |-> device_serials])

MigUnclaim ==
    MigCall("unclaim", "UI", "unclaim_devices", "O1", [serials |-> device_serials])

MigSelectTarget ==
    MigCall("select_target", "UI", "select_organization", "O2", NoData)

MigClaim ==
    MigCall("claim", "UI", "claim_devices", "O2", [serials |-> device_serials])

\* network_config is built from backup['network_info'], which raises when it
\* is None; create_network returns an id or raises, and after a raise the
\* networks of the target are listed before the run raises
MigCreateNetwork ==
    /\ pc = "create_network"
    /\ IF Answered(Ep("net", "info", None), "none")
       THEN MigRaise /\ UNCHANGED calls
       ELSE \E out \in MigOutcomes("create_network"),
               listed \in MigOutcomes("list_networks") :
               /\ out = "ok" => listed = "ok"
               /\ calls' = calls
                     \o <<Op("API", "create_network", "O2", NoData, out)>>
                     \o (IF out = "ok" THEN <<>>
                         ELSE <<Op("API", "list_networks", "O2", NoData, listed)>>)
               /\ IF Proceeds("create_network", out)
                  THEN pc' = MigStepAfter("create_network") /\ UNCHANGED returned
                  ELSE MigRaise
    /\ UNCHANGED <<backup, device_mapping, now, source>>
    /\ UNCHANGED migFrame

MigAddDevices ==
    MigCall("add_devices", "API", "add_devices_to_network", TargetNetworkId,
            [serials |-> device_serials])

\* the keys of the dict {x: ... for x in keys}, in the order the dict holds
\* them: every value once, at the place of its first occurrence
RECURSIVE DictKeys(_)
DictKeys(keys) ==
    IF keys = <<>> THEN <<>>
    ELSE LET front == DictKeys(SubSeq(keys, 1, Len(keys) - 1))
             last  == keys[Len(keys)]
         IN IF last \in Range(front) THEN front ELSE Append(front, last)

\* device_mapping = {serial: serial for serial in device_serials}, a dict
\* with one item per distinct serial; restore_all_settings(backup,
\* target_network_id, device_mapping); return target_network_id
MigRestore ==
    /\ pc = "restore"
    /\ device_mapping' = [n \in 1..Len(DictKeys(device_serials)) |->
                             <<DictKeys(device_serials)[n], DictKeys(device_serials)[n]>>]
    /\ \E out \in MigOutcomes("restore_all_settings") :
          /\ calls' = Append(calls, Op("API", "restore_all_settings", TargetNetworkId,
                                       backup, out))
          /\ IF Proceeds("restore_all_settings", out)
             THEN /\ pc' = MigStepAfter("restore")
                  /\ returned' = Returned("value", TargetNetworkId)
             ELSE MigRaise
    /\ UNCHANGED <<backup, now, source>>
    /\ UNCHANGED migFrame

NextMigration ==
    \/ VerifySourceOrg
    \/ VerifySourceNetwork
    \/ VerifyTargetOrg
    \/ MigCapture
    \/ MigSave
    \/ MigDeviceSerials
    \/ MigUiEnter
    \/ MigLogin
    \/ MigSelectSource
    \/ MigRemove
    \/ MigUnclaim
    \/ MigSelectTarget
    \/ MigClaim
    \/ MigCreateNetwork
    \/ MigAddDevices
    \/ MigRestore

SpecMigration == InitMigration /\ [][NextMigration]_vars

\* the calls of the trace with the given name
OpsNamed(res) == {n \in CallIdx : calls[n].res = res}

\* the operations that move devices
Destructive == {"remove_devices_from_network", "unclaim_devices", "claim_devices"}

\* C38: every removal, unclaim and claim of the run comes after a capture
\* that returned and a write of that snapshot to the backup file that
\* returned, in this order; and a run whose snapshot lists no device ends
\* returning None without any UI operation, network creation or restore.
C38_CaptureBeforeDestructive ==
    /\ \A n \in CallIdx :
          calls[n].res \in Destructive =>
              \E c \in OpsNamed("backup_all_settings"), f \in OpsNamed("backup_file") :
                  /\ c < f
                  /\ f < n
                  /\ calls[c].out = "ok"
                  /\ calls[f].out = "ok"
                  /\ calls[f].data = backup
                  /\ calls[n].data.serials = device_serials
    /\ (\E c \in OpsNamed("backup_all_settings") :
            calls[c].out = "ok" /\ backup.devices = <<>>) =>
          /\ \A n \in CallIdx :
                /\ calls[n].method # "UI"
                /\ calls[n].res \notin {"create_network", "restore_all_settings"}
          /\ pc \in {"save", "device_serials", "mig_return"}
          /\ pc = "mig_return" =>
                \/ returned = ReturnedNone
                \/ (returned = Raises /\ calls[Len(calls)].out = "exc")

\* a run over a network with two devices that reached the claim: the snapshot
\* was captured and saved before the removal
C38_Witness ==
    /\ pc = "create_network"
    /\ Len(backup.devices) = 2
    /\ OpsNamed("claim_devices") # {}
    /\ \E n \in OpsNamed("remove_devices_from_network") : calls[n].out = "false"
    /\ calls[4].res = "backup_all_settings"
    /\ calls[5].res = "backup_file"

\* a run over a network without devices: it ended returning None after the
\* snapshot was saved
NoDevicesRun ==
    /\ pc = "mig_return"
    /\ returned = ReturnedNone
    /\ backup.devices = <<>>
    /\ calls[Len(calls)].res = "backup_file"
    /\ calls[Len(calls)].out = "ok"

\* the operations whose failure ends the run
Required ==
    {"verify_org_access", "verify_network_access", "select_organization",
     "unclaim_devices", "claim_devices", "create_network"}

\* C39: a restore call comes after three access checks, an unclaim and a
\* claim that reported success and a network creation that returned the id
\* the restore is addressed to, with a mapping that has one item for every
\* distinct captured serial, to itself, in the order the serials were first
\* listed; and once an access check, an organization selection, an unclaim,
\* a claim or the network creation failed, the run has ended raising and holds
\* no restore call.
C39_RestoreAfterSuccess ==
    /\ \A r \in OpsNamed("restore_all_settings") :
          /\ Cardinality({n \in OpsNamed("verify_org_access") :
                             n < r /\ calls[n].out = "ok"}) = 2
          /\ \E n \in OpsNamed("verify_network_access") : n < r /\ calls[n].out = "ok"
          /\ \E u \in OpsNamed("unclaim_devices"), c \in OpsNamed("claim_devices"),
                k \in OpsNamed("create_network") :
                /\ u < c /\ c < k /\ k < r
                /\ calls[u].out = "ok"
                /\ calls[c].out = "ok"
                /\ calls[k].out = "ok"
          /\ calls[r].dev = TargetNetworkId
          /\ calls[r].data = backup
          /\ \A n \in 1..Len(device_mapping) :
                device_mapping[n][2] = device_mapping[n][1]
          /\ {device_mapping[n][1] : n \in 1..Len(device_mapping)}
                = {backup.devices[n].serial : n \in 1..Len(backup.devices)}
          /\ \A m, n \in 1..Len(device_mapping) :
                m < n =>
                    \E a \in 1..Len(backup.devices) :
                        /\ backup.devices[a].serial = device_mapping[m][1]
                        /\ \A b \in 1..a : backup.devices[b].serial # device_mapping[n][1]
    /\ \A n \in CallIdx :
          (calls[n].res \in Required /\ calls[n].out # "ok") =>
              /\ pc = "mig_return"
              /\ returned = Raises
              /\ OpsNamed("restore_all_settings") = {}
              /\ \A m \in CallIdx : m > n => calls[m].res = "list_networks"

\* a finished migration: the removal reported failure, add_devices_to_network
\* reported failure, and the restore was called and the target id returned
C39_Witness ==
    /\ pc = "mig_return"
    /\ returned = Returned("value", TargetNetworkId)
    /\ Len(device_mapping) = 2
    /\ \E n \in OpsNamed("add_devices_to_network") : calls[n].out = "false"
    /\ \E n \in OpsNamed("remove_devices_from_network") : calls[n].out = "false"
    /\ calls[Len(calls)].res = "restore_all_settings"

\* a finished migration of a network whose device list holds a serial twice:
\* the mapping has one item for it, and its settings are those of the record
\* listed last
RepeatedSerialRun ==
    /\ pc = "mig_return"
    /\ returned = Returned("value", TargetNetworkId)
    /\ Len(backup.devices) = 3
    /\ device_mapping = <<<<"Q1", "Q1">>, <<"Q2", "Q2">>>>
    /\ backup.device_settings["Q1"]["info"].model[1] = "MR"

\* a migration that raised after the devices were unclaimed: the claim
\* reported failure and no restore was called
ClaimFailedRun ==
    /\ pc = "mig_return"
    /\ returned = Raises
    /\ calls[Len(calls)].res = "claim_devices"
    /\ calls[Len(calls)].out = "false"
    /\ \E n \in OpsNamed("unclaim_devices") : calls[n].out = "ok"

====
